---- MODULE Spec2Model ----
(***************************************************************************)
(* actors-interop: the FFI layer between a C++ actor runtime and a Rust    *)
(* actor runtime.  The model covers the two name registries, reference     *)
(* resolution (InteropManager::get_ref / get_actor_ref), the send paths    *)
(* through an ActorRef (RustActorRef::send, ActorRef::Cpp), the two bridge *)
(* entry points (rust_actor_send / cpp_actor_send), the reply proxy, and   *)
(* the blocking fast_send, the bridge lifecycle (init / shutdown), the     *)
(* examples' main() sequences, the message codec and the pub/sub example.  *)
(***************************************************************************)
EXTENDS Integers, Sequences, FiniteSets, TLC

VARIABLES
    registry,     \* runtime -> set of names registered in that runtime's table
    actor_ref,    \* actor -> the ActorRef it holds (pong_ref_, publisher_ref_) or NoRef
    mailbox,      \* actor -> queue of messages waiting for the actor's own scheduler
    current,      \* actor -> the message whose handler is running, or NoMsg
    blocked_on,   \* actor -> id of the fast_send message it is blocked on, 0 if none
    processed,    \* ids of the messages whose handler has completed
    fast_log,     \* fast_send calls that were delivered, in issue order
    next_id,      \* id given to the next message that is enqueued
    alive,        \* FALSE once std::terminate has ended the process
    last,         \* record of the last operation performed (what the caller observed)
    bridge,       \* runtime -> "uninit" | "ready" | "down": state of its actor bridge
    lookup_ready, \* TRUE once init_cpp_actor_lookup() has run
    mgr,          \* runtime -> "none" | "created" | "started" | "ended": its Manager
    pc,           \* the main thread: which example's main() and the next statement
    local         \* fields of the pub/sub actors (update_count_, loop index, ...)

\* the process around the actors: bridges, managers, main thread, actor fields
env == <<bridge, lookup_ready, mgr, pc, local>>

vars == <<registry, actor_ref, mailbox, current, blocked_on, processed,
          fast_log, next_id, alive, last, bridge, lookup_ready, mgr, pc, local>>

----------------------------------------------------------------------------
(* Bounds of the model *)

\* number of messages actors may enqueue in one run (Start messages excluded)
MaxMsgs == 2

----------------------------------------------------------------------------
(* Program constants *)

MSG_PING == 1000
MSG_PONG == 1001
MSG_DATAREQUEST == 1002
MSG_DATARESPONSE == 1003
MSG_SUBSCRIBE == 1010
MSG_UNSUBSCRIBE == 1011
MSG_MARKETUPDATE == 1012
MSG_MARKETDEPTH == 1013
\* an id used by the developer guide for a message that is not in the schema
MSG_MYMESSAGE == 1020
\* "Message IDs start at 1000 to avoid conflicts with internal messages"
INTEROP_ID_BASE == 1000

\* the ids declared by INTEROP_MESSAGE in messages/interop_messages.h
DeclaredIds ==
    {MSG_PING, MSG_PONG, MSG_DATAREQUEST, MSG_DATARESPONSE,
     MSG_SUBSCRIBE, MSG_UNSUBSCRIBE, MSG_MARKETUPDATE, MSG_MARKETDEPTH}

\* a switch that lacks the case of the last declared message
SwitchIds_without_depth ==
    {MSG_PING, MSG_PONG, MSG_DATAREQUEST, MSG_DATARESPONSE,
     MSG_SUBSCRIBE, MSG_UNSUBSCRIBE, MSG_MARKETUPDATE}

\* the case labels of the switch in RustActorRef::send
SwitchIds ==
    {MSG_PING, MSG_PONG, MSG_DATAREQUEST, MSG_DATARESPONSE,
     MSG_SUBSCRIBE, MSG_UNSUBSCRIBE, MSG_MARKETUPDATE, MSG_MARKETDEPTH}

\* actors::msg::Start, a control message: its id is below the interop range
MSG_START == INTEROP_ID_BASE - 1

----------------------------------------------------------------------------
(* Runtimes, names, actors *)

RT == {"cpp", "rust"}

Peer(rt) == IF rt = "cpp" THEN "rust" ELSE "cpp"

\* actor names; any name may be registered in either runtime's table
Names == {"cpp_subscriber", "rust_publisher"}

RuntimeOf(a) == a[1]
NameOf(a) == a[2]

\* the actor objects, each <<owning runtime, name>>: a C++ actor, a Rust actor,
\* and a Rust actor whose name collides with the C++ actor's
Actors ==
    {<<"cpp", "cpp_subscriber">>, <<"rust", "rust_publisher">>,
     <<"rust", "cpp_subscriber">>}

\* the actors that look names up and send through references (PingActor,
\* MarketSubscriber, CppPriceFeed, RustSubscriber, ...)
Clients == {<<"cpp", "cpp_subscriber">>, <<"rust", "rust_publisher">>}

\* an actor that only handles what it receives and replies (CppPongActor)
Responders == Actors \ Clients

\* the names a runtime's table may hold: those of its own actors
OwnNames(rt) == {NameOf(a) : a \in {b \in Actors : RuntimeOf(b) = rt}}

\* the thread that runs main(): it broadcasts Start and is no actor
MainThread == <<"main", "main">>

NoRef == [variant |-> "None", target |-> "", sender |-> ""]
NoMsg == [id |-> 0]
NoSender == [via |-> "none", name |-> ""]

\* LocalActorRef (C++) / ActorRef::Local (Rust): holds the handle of an actor
\* of the same runtime
LocalActorRef(name) == [variant |-> "Local", target |-> name, sender |-> ""]

\* actors::RustActorRef(target_name_, sender_name_)
RustActorRef(name, sender_name) ==
    [variant |-> "Rust", target |-> name, sender |-> sender_name]

\* ActorRef::Cpp { target, sender, send_fn }
CppActorRef(name, sender_name) ==
    [variant |-> "Cpp", target |-> name, sender |-> sender_name]

IsCross(ref) == ref.variant \in {"Rust", "Cpp"}

----------------------------------------------------------------------------
(* The exists queries exposed across the boundary *)

rust_actor_exists(reg, name) == name \in reg["rust"]

cpp_actor_exists(reg, name) == name \in reg["cpp"]

----------------------------------------------------------------------------
(* Reference resolution *)

\* get_ref with the two lookups in the wrong order (peer first)
get_ref_peer_first(reg, name) ==
    IF rust_actor_exists(reg, name)
    THEN [found |-> TRUE, ref |-> RustActorRef(name, ""), exists_calls |-> 1]
    ELSE IF name \in reg["cpp"]
    THEN [found |-> TRUE, ref |-> LocalActorRef(name), exists_calls |-> 1]
    ELSE [found |-> FALSE, ref |-> NoRef, exists_calls |-> 1]

\* get_ref that hands out a RustActorRef without asking whether the actor exists
get_ref_unchecked(reg, name) ==
    IF name \in reg["cpp"]
    THEN [found |-> TRUE, ref |-> LocalActorRef(name), exists_calls |-> 0]
    ELSE [found |-> TRUE, ref |-> RustActorRef(name, ""), exists_calls |-> 0]

\* InteropManager::get_ref(name): 1. local C++ actors (get_actor_by_name),
\* 2. Rust actors via rust_actor_exists, else throw "Actor not found".
\* found = FALSE stands for the throw; exists_calls counts the FFI queries made.
get_ref(reg, name) ==
    IF name \in reg["cpp"]
    THEN [found |-> TRUE, ref |-> LocalActorRef(name), exists_calls |-> 0]
    ELSE IF rust_actor_exists(reg, name)
    THEN [found |-> TRUE, ref |-> RustActorRef(name, ""), exists_calls |-> 1]
    ELSE [found |-> FALSE, ref |-> NoRef, exists_calls |-> 1]

\* get_actor_ref(name, sender): 1. local Rust actors via the Manager,
\* 2. C++ actors via cpp_actor_exists, else None (found = FALSE).
get_actor_ref(reg, name, sender) ==
    IF name \in reg["rust"]
    THEN [found |-> TRUE, ref |-> LocalActorRef(name), exists_calls |-> 0]
    ELSE IF cpp_actor_exists(reg, name)
    THEN [found |-> TRUE, ref |-> CppActorRef(name, sender), exists_calls |-> 1]
    ELSE [found |-> FALSE, ref |-> NoRef, exists_calls |-> 1]

\* The resolution an actor of runtime rt gets: C++ actors call
\* manager->get_ref(name), Rust actors get_actor_ref(name, own name).
Resolve(a, reg, name) ==
    IF RuntimeOf(a) = "cpp" THEN get_ref(reg, name)
    ELSE get_actor_ref(reg, name, NameOf(a))

\* The message handlers of the C++ actors are declared noexcept
\* (on_start, on_pong, on_ping, on_subscribe, ...): an exception that leaves
\* one calls std::terminate.  Rust handlers get an Option back.
HandlerIsNoexcept(a) == RuntimeOf(a) = "cpp"

----------------------------------------------------------------------------
(* Send paths of a reference *)

NoCall ==
    [made |-> FALSE, fn |-> "", actor_name |-> "", sender_name |-> "",
     msg_type |-> 0]

\* a send that passes the name of the actor given as the sender argument
RustActorRef_send_from_argument(ref, mtype, sender) ==
    IF mtype \in SwitchIds
    THEN [made |-> TRUE, fn |-> "rust_actor_send", actor_name |-> ref.target,
          sender_name |-> NameOf(sender), msg_type |-> mtype]
    ELSE NoCall

\* RustActorRef::send(m, sender): sender is [[maybe_unused]]; the name that
\* crosses is sender_name_ (nullptr, here "", when it is empty); one
\* rust_actor_send per case label, nothing for any other id.
RustActorRef_send(ref, mtype, sender) ==
    LET sender_name_cstr == IF ref.sender = "" THEN "" ELSE ref.sender
    IN  IF mtype \in SwitchIds
        THEN [made |-> TRUE, fn |-> "rust_actor_send", actor_name |-> ref.target,
              sender_name |-> sender_name_cstr, msg_type |-> mtype]
        ELSE NoCall

\* cpp_send_fn(target, sender, msg), stored in ActorRef::Cpp: takes the
\* message id, downcasts to the concrete type and calls cpp_actor_send.
cpp_send_fn(target, sender, mtype) ==
    IF mtype \in DeclaredIds
    THEN [made |-> TRUE, fn |-> "cpp_actor_send", actor_name |-> target,
          sender_name |-> sender, msg_type |-> mtype]
    ELSE NoCall

\* The runtime a bridge function delivers into
TargetRuntime(fn) == IF fn = "rust_actor_send" THEN "rust" ELSE "cpp"

\* a bridge that converts the C struct before it looks the target up
BridgeStatus_decode_first(reg, call) ==
    IF call.msg_type \notin DeclaredIds THEN "DecodeError"
    ELSE IF call.actor_name \notin reg[TargetRuntime(call.fn)] THEN "NotFound"
    ELSE "Delivered"

\* rust_actor_send / cpp_actor_send: a. looks the target up in the Manager,
\* b. converts the C struct (from_c_struct), c. sends to the actor's queue.
BridgeStatus(reg, call) ==
    IF call.actor_name \notin reg[TargetRuntime(call.fn)] THEN "NotFound"
    ELSE IF call.msg_type \notin DeclaredIds THEN "DecodeError"
    ELSE "Delivered"

\* The sender a delivered message carries on the receiving side: the proxy
\* (RustSenderProxy / SenderContext) built from the name that crossed
ProxySender(sender_name) ==
    IF sender_name = "" THEN NoSender ELSE [via |-> "proxy", name |-> sender_name]

\* The sender of a same-runtime C++ send: actor->send(m, sender)
LocalSender(a) == [via |-> "local", name |-> NameOf(a)]

\* A reference that resolves again at send time instead of using the variant
\* fixed at construction
SendPlan_reresolve(a, ref, mtype, reg) ==
    LET now == Resolve(a, reg, ref.target)
        r == IF now.found THEN now.ref ELSE ref
    IN  IF r.variant = "Local"
        THEN [route |-> "local", call |-> NoCall, dest |-> <<RuntimeOf(a), r.target>>,
              status |-> "Delivered",
              sender |-> IF RuntimeOf(a) = "cpp" THEN LocalSender(a) ELSE NoSender]
        ELSE LET call == IF r.variant = "Rust" THEN RustActorRef_send(r, mtype, a)
                         ELSE cpp_send_fn(r.target, r.sender, mtype)
             IN  [route |-> "bridge", call |-> call,
                  dest |-> <<Peer(RuntimeOf(a)), r.target>>,
                  status |-> IF call.made THEN BridgeStatus(reg, call) ELSE "Dropped",
                  sender |-> ProxySender(call.sender_name)]

\* ActorRef::send: dispatch on the variant held by the reference
\* (std::visit / match self).  Local: the message goes to the handle's queue,
\* with the sender for C++ (actor->send(m, sender)) and without for Rust
\* (sender.send(msg)).  Rust / Cpp: through the bridge.
SendPlan(a, ref, mtype, reg) ==
    IF ref.variant = "Local"
    THEN [route |-> "local", call |-> NoCall, dest |-> <<RuntimeOf(a), ref.target>>,
          status |-> "Delivered",
          sender |-> IF RuntimeOf(a) = "cpp" THEN LocalSender(a) ELSE NoSender]
    ELSE LET call == IF ref.variant = "Rust" THEN RustActorRef_send(ref, mtype, a)
                     ELSE cpp_send_fn(ref.target, ref.sender, mtype)
         IN  [route |-> "bridge", call |-> call,
              dest |-> <<Peer(RuntimeOf(a)), ref.target>>,
              status |-> IF call.made THEN BridgeStatus(reg, call) ELSE "Dropped",
              sender |-> ProxySender(call.sender_name)]

----------------------------------------------------------------------------
(* Mailboxes, handlers, blocking *)

\* the message ids an actor puts on a send: a declared one (Subscribe) and one
\* that is in no schema
SendIds == {MSG_SUBSCRIBE, MSG_MYMESSAGE}

\* the message a handler replies with
ReplyId == MSG_MARKETUPDATE

StartMsg ==
    [id |-> -1, kind |-> "send", mtype |-> MSG_START, from |-> MainThread,
     sender |-> NoSender]

Blocked(a) == blocked_on[a] # 0

\* an actor executes statements of a handler: a message is being handled and
\* the thread is not blocked inside a fast_send
CanAct(a) == alive /\ current[a] # NoMsg /\ ~Blocked(a)

\* the ids of the messages queued for actor a
QueuedIds(a) == {mailbox[a][i].id : i \in 1..Len(mailbox[a])}

\* fast_send that posts ahead of the queue and returns at once
Enqueued_fast_unblocked(kind, a, dest, m) ==
    [mb |-> IF kind = "fast" THEN [mailbox EXCEPT ![dest] = <<m>> \o @]
            ELSE [mailbox EXCEPT ![dest] = Append(@, m)],
     blk |-> blocked_on]

\* send that waits for the handler the way fast_send does
Enqueued_send_blocks(kind, a, dest, m) ==
    [mb |-> [mailbox EXCEPT ![dest] = Append(@, m)],
     blk |-> [blocked_on EXCEPT ![a] = m.id]]

\* The effect of a delivered message on the target's queue and on the caller:
\* send queues the message and returns; fast_send queues it and blocks the
\* calling thread until the target has processed it.
Enqueued(kind, a, dest, m) ==
    [mb |-> [mailbox EXCEPT ![dest] = Append(@, m)],
     blk |-> IF kind = "fast" THEN [blocked_on EXCEPT ![a] = m.id]
             ELSE blocked_on]

\* fast_send that returns as soon as the target has taken the message
HandlerCompleted_started(id) ==
    \A b \in Actors : id \notin QueuedIds(b)

\* the handler of message id has run to its end
HandlerCompleted(id) == id \in processed

----------------------------------------------------------------------------
(* Actions *)

\* cpp_actor_register / rust_actor_register_boxed (and manage())
Register(rt, n) ==
    /\ alive
    /\ n \notin registry[rt]
    /\ registry' = [registry EXCEPT ![rt] = @ \cup {n}]
    /\ last' = [op |-> "register"]
    /\ UNCHANGED <<actor_ref, mailbox, current, blocked_on, processed,
                   fast_log, next_id, alive>>
    /\ UNCHANGED env

\* cpp_actor_unregister
Unregister(rt, n) ==
    /\ alive
    /\ n \in registry[rt]
    /\ registry' = [registry EXCEPT ![rt] = @ \ {n}]
    /\ last' = [op |-> "unregister"]
    /\ UNCHANGED <<actor_ref, mailbox, current, blocked_on, processed,
                   fast_log, next_id, alive>>
    /\ UNCHANGED env

\* the actor's scheduler takes the next message and invokes its handler
HandlerStart(a) ==
    /\ alive
    /\ mgr[RuntimeOf(a)] = "started"
    /\ current[a] = NoMsg
    /\ mailbox[a] # <<>>
    /\ current' = [current EXCEPT ![a] = Head(mailbox[a])]
    /\ mailbox' = [mailbox EXCEPT ![a] = Tail(@)]
    /\ last' = [op |-> "handler_start"]
    /\ UNCHANGED <<registry, actor_ref, blocked_on, processed, fast_log,
                   next_id, alive>>
    /\ UNCHANGED env

\* the handler returns
HandlerEnd(a) ==
    /\ CanAct(a)
    /\ processed' = processed \cup {current[a].id}
    /\ current' = [current EXCEPT ![a] = NoMsg]
    /\ last' = [op |-> "handler_end"]
    /\ UNCHANGED <<registry, actor_ref, mailbox, blocked_on, fast_log,
                   next_id, alive>>
    /\ UNCHANGED env

\* a handler resolves a name: pong_ref_ = manager->get_ref("rust_pong"),
\* self.publisher = get_actor_ref("cpp_publisher", "rust_subscriber").
\* A throw out of a noexcept handler ends the process.
GetRef(a, n) ==
    /\ CanAct(a)
    /\ LET r == Resolve(a, registry, n)
       IN  /\ actor_ref' = IF r.found THEN [actor_ref EXCEPT ![a] = r.ref]
                           ELSE actor_ref
           /\ alive' = (r.found \/ ~HandlerIsNoexcept(a))
           /\ last' = [op |-> "get_ref", by |-> a, name |-> n,
                       found |-> r.found, ref |-> r.ref,
                       exists_calls |-> r.exists_calls,
                       local_had |-> n \in registry[RuntimeOf(a)],
                       peer_had |-> n \in registry[Peer(RuntimeOf(a))],
                       reg_before |-> registry]
    /\ UNCHANGED <<registry, mailbox, current, blocked_on, processed,
                   fast_log, next_id>>
    /\ UNCHANGED env

\* a handler sends through the reference it holds:
\* ref.send(msg, this) / ref.fast_send(msg, this)
ActorSend(a, kind, mtype) ==
    /\ CanAct(a)
    /\ actor_ref[a] # NoRef
    /\ next_id <= MaxMsgs
    /\ LET ref == actor_ref[a]
           plan == SendPlan(a, ref, mtype, registry)
           m == [id |-> next_id, kind |-> kind, mtype |-> mtype, from |-> a,
                 sender |-> plan.sender]
           e == Enqueued(kind, a, plan.dest, m)
           delivered == plan.status = "Delivered"
       IN  /\ mailbox' = IF delivered THEN e.mb ELSE mailbox
           /\ blocked_on' = IF delivered THEN e.blk ELSE blocked_on
           /\ next_id' = IF delivered THEN next_id + 1 ELSE next_id
           /\ fast_log' = IF delivered /\ kind = "fast"
                          THEN Append(fast_log,
                                      [id |-> m.id, from |-> a, dest |-> plan.dest])
                          ELSE fast_log
           /\ last' = [op |-> kind, by |-> a, route |-> plan.route,
                       call |-> plan.call, status |-> plan.status,
                       dest |-> plan.dest, id |-> m.id]
    /\ UNCHANGED <<registry, actor_ref, current, processed, alive>>
    /\ UNCHANGED env

\* a handler replies to the sender of the message it is handling: reply(pong).
\* Sender absent: NoReplyContext.  Sender a local actor: sender->send(R, this).
\* Sender a proxy: the proxy's send makes the bridge call back into the
\* origin runtime, addressed to the name captured at crossing time.
Reply(a) ==
    /\ CanAct(a)
    /\ next_id <= MaxMsgs
    /\ LET cm == current[a]
           rt == RuntimeOf(a)
           call == IF cm.sender.via = "proxy"
                   THEN [made |-> TRUE,
                         fn |-> IF rt = "cpp" THEN "rust_actor_send"
                                ELSE "cpp_actor_send",
                         actor_name |-> cm.sender.name,
                         sender_name |-> NameOf(a), msg_type |-> ReplyId]
                   ELSE NoCall
           status == IF cm.sender.via = "none" THEN "NoReplyContext"
                     ELSE IF cm.sender.via = "local" THEN "Delivered"
                     ELSE BridgeStatus(registry, call)
           dest == IF cm.sender.via = "local" THEN <<rt, cm.sender.name>>
                   ELSE <<Peer(rt), cm.sender.name>>
           m == [id |-> next_id, kind |-> "send", mtype |-> ReplyId,
                 from |-> a,
                 sender |-> IF cm.sender.via = "local" THEN LocalSender(a)
                            ELSE ProxySender(NameOf(a))]
           delivered == status = "Delivered"
       IN  /\ mailbox' = IF delivered THEN Enqueued("send", a, dest, m).mb
                         ELSE mailbox
           /\ next_id' = IF delivered THEN next_id + 1 ELSE next_id
           /\ last' = [op |-> "reply", by |-> a, to_msg |-> cm, call |-> call,
                       status |-> status, dest |-> dest, id |-> m.id]
    /\ UNCHANGED <<registry, actor_ref, current, blocked_on, processed,
                   fast_log, alive>>
    /\ UNCHANGED env

\* the blocked fast_send returns to the calling thread
FastReturn(a) ==
    /\ alive
    /\ Blocked(a)
    /\ HandlerCompleted(blocked_on[a])
    /\ last' = [op |-> "fast_return", by |-> a, id |-> blocked_on[a]]
    /\ blocked_on' = [blocked_on EXCEPT ![a] = 0]
    /\ UNCHANGED <<registry, actor_ref, mailbox, current, processed,
                   fast_log, next_id, alive>>
    /\ UNCHANGED env

----------------------------------------------------------------------------
(* Specifications *)

\* the main thread is not modelled: it sits between the managers' init and end
NoMain == [example |-> "none", at |-> 0]

\* the pub/sub actors' fields as constructed
NoLocal == [update_count |-> 0, terminate_calls |-> 0, received |-> <<>>,
            sent |-> 0]

\* the process while the actors run: both bridges initialised, the C++ lookup
\* registered, both managers started
SteadyEnv ==
    /\ bridge = [rt \in RT |-> "ready"]
    /\ lookup_ready = TRUE
    /\ mgr = [rt \in RT |-> "started"]
    /\ pc = NoMain
    /\ local = NoLocal

\* After construction and the managers' init: each runtime's table holds some
\* of its actors' names, the Start broadcast has reached the registered actor
\* that initiates the exchange (in every example one actor acts on Start:
\* PingActor, MarketSubscriber, RustPingActor, RustSubscriber; the others only
\* react to messages), and nobody holds a reference yet.
Init ==
    /\ registry \in {r \in [RT -> SUBSET Names] :
                        \A rt \in RT : r[rt] \subseteq OwnNames(rt)}
    /\ \E starter \in {a \in Clients : NameOf(a) \in registry[RuntimeOf(a)]} :
          mailbox = [a \in Actors |-> IF a = starter THEN <<StartMsg>> ELSE <<>>]
    /\ actor_ref = [a \in Actors |-> NoRef]
    /\ current = [a \in Actors |-> NoMsg]
    /\ blocked_on = [a \in Actors |-> 0]
    /\ processed = {}
    /\ fast_log = <<>>
    /\ next_id = 1
    /\ alive = TRUE
    /\ last = [op |-> "init"]
    /\ SteadyEnv

\* Resolution, asynchronous send and reply while actors register and
\* unregister
Next ==
    \/ \E rt \in RT : \E n \in OwnNames(rt) : Register(rt, n)
    \/ \E rt \in RT : \E n \in OwnNames(rt) : Unregister(rt, n)
    \/ \E a \in Actors : HandlerStart(a)
    \/ \E a \in Actors : HandlerEnd(a)
    \/ \E a \in Clients, n \in Names : GetRef(a, n)
    \/ \E a \in Clients, mtype \in SendIds : ActorSend(a, "send", mtype)
    \/ \E a \in Actors : Reply(a)

Spec == Init /\ [][Next]_vars

\* send and fast_send side by side, over fixed registries
FastNext ==
    \/ \E a \in Actors : HandlerStart(a)
    \/ \E a \in Actors : HandlerEnd(a)
    \/ \E a \in Clients, n \in Names : GetRef(a, n)
    \/ \E a \in Clients, mtype \in SendIds : ActorSend(a, "send", mtype)
    \/ \E a \in Clients, mtype \in SendIds : ActorSend(a, "fast", mtype)
    \/ \E a \in Actors : Reply(a)
    \/ \E a \in Actors : FastReturn(a)

FastSpec == Init /\ [][FastNext]_vars

\* Each actor's execution context keeps running: a queued message is
\* eventually taken, a handler that is not blocked eventually returns, and a
\* fast_send whose message has been processed eventually returns.
FairFastSpec ==
    /\ FastSpec
    /\ \A a \in Actors : WF_vars(HandlerStart(a))
    /\ \A a \in Actors : WF_vars(HandlerEnd(a))
    /\ \A a \in Actors : WF_vars(FastReturn(a))

----------------------------------------------------------------------------
(* Claims *)

\* the reference actor a used for the send recorded in last
RefUsed == actor_ref[last.by]

\* the actor that sent the message a reply answers
ReplyOrigin == last.to_msg.from

\* C1 (as stated): whenever an actor X of one runtime sends M to an actor Y of
\* the other runtime and Y calls reply(R) while handling M, one delivery of R is
\* issued back into X's runtime, addressed to X's name -- in both directions.
C1_ReplySymmetry ==
    (last.op = "reply" /\ ReplyOrigin \in Actors
        /\ RuntimeOf(ReplyOrigin) # RuntimeOf(last.by))
    => /\ last.call.made
       /\ TargetRuntime(last.call.fn) = RuntimeOf(ReplyOrigin)
       /\ last.call.actor_name = NameOf(ReplyOrigin)

\* C2: a name registered in the caller's own table resolves to the
\* same-runtime-local reference, whether or not the peer also has it, and the
\* peer's exists query is made only when the local lookup missed.
C2_LocalFirst ==
    last.op = "get_ref"
    => /\ last.local_had
          => /\ last.found
             /\ last.ref = LocalActorRef(last.name)
             /\ actor_ref[last.by] = LocalActorRef(last.name)
             /\ last.exists_calls = 0
       /\ last.exists_calls > 0 => ~last.local_had

\* C2 witness: a lookup of a name that both tables hold
C2_Witness ==
    /\ last.op = "get_ref"
    /\ last.local_had /\ last.peer_had
    /\ RuntimeOf(last.by) = "cpp"

\* C3 (as stated): when a C++ actor S sends through a reference from get_ref,
\* passing itself as sender, and the target is a Rust actor, rust_actor_send
\* receives S's name as sender_name.
C3_SenderNameCrosses ==
    (last.op = "send" /\ RuntimeOf(last.by) = "cpp" /\ last.call.made
        /\ last.call.fn = "rust_actor_send")
    => last.call.sender_name = NameOf(last.by)

C5_NotFoundNonFatal ==
    (last.op = "get_ref" /\ ~last.found) => alive

\* what the registries would resolve the reference's target to now
ResolvedNow == Resolve(last.by, registry, RefUsed.target)

\* C6: a send through an existing reference routes by the variant and target
\* name fixed when the reference was built, whatever the registries hold now.
C6_VariantFixed ==
    last.op = "send"
    => /\ RefUsed.variant = "Local"
          => /\ last.route = "local"
             /\ ~last.call.made
             /\ last.dest = <<RuntimeOf(last.by), RefUsed.target>>
       /\ IsCross(RefUsed)
          => /\ last.route = "bridge"
             /\ last.dest = <<Peer(RuntimeOf(last.by)), RefUsed.target>>
             /\ last.call.made => last.call.actor_name = RefUsed.target
       /\ last.status = "Delivered" => last.id \in QueuedIds(last.dest)
       /\ \A b \in Actors \ {last.dest} : last.id \notin QueuedIds(b)

\* C6 witness: a send through a reference whose target the registries would
\* by now resolve to the other variant
C6_Witness ==
    /\ last.op = "send"
    /\ last.status = "Delivered"
    /\ ResolvedNow.found
    /\ ResolvedNow.ref.variant # RefUsed.variant

\* C7: a cross-runtime send has returned once the message is queued on the
\* peer side: the caller is not blocked, the message sits in the target's queue
\* and the target's handler has neither started nor finished it.
C7_SendFireAndForget ==
    (last.op = "send" /\ IsCross(RefUsed) /\ last.status = "Delivered")
    => /\ ~Blocked(last.by)
       /\ last.id \in QueuedIds(last.dest)
       /\ \A b \in Actors : current[b].id # last.id
       /\ last.id \notin processed

\* C7 witness: a delivered cross-runtime send to a target that is in the
\* middle of another handler
C7_Witness ==
    /\ last.op = "send"
    /\ IsCross(RefUsed)
    /\ last.status = "Delivered"
    /\ current[last.dest] # NoMsg

\* the handler of message id has been entered
Started(id) == id \in processed \/ \E b \in Actors : current[b].id = id

\* two fast_sends of one source to one target, in issue order
SequentialFastSends ==
    {p \in (1..Len(fast_log)) \X (1..Len(fast_log)) :
        /\ p[1] < p[2]
        /\ fast_log[p[1]].from = fast_log[p[2]].from
        /\ fast_log[p[1]].dest = fast_log[p[2]].dest}

\* C8: of two fast_sends issued one after the other by the same source to the
\* same target, the handler of the first has completed before the handler of
\* the second starts.
C8_FastSendOrder ==
    \A p \in SequentialFastSends :
        Started(fast_log[p[2]].id) => fast_log[p[1]].id \in processed

\* C8 witness: the handler of the second of two such fast_sends is running
C8_Witness ==
    \E p \in SequentialFastSends :
        \E b \in Actors : current[b].id = fast_log[p[2]].id

\* C9: a delivered fast_send keeps its calling thread blocked for as long as
\* the target's handler has not completed the message, and a fast_send that
\* has returned finds the message processed.
C9_FastSendBlocks ==
    /\ \A k \in 1..Len(fast_log) :
          fast_log[k].id \notin processed
          => blocked_on[fast_log[k].from] = fast_log[k].id
    /\ last.op = "fast_return" => last.id \in processed

\* C9 witness: a fast_send has just returned to its caller
C9_Witness ==
    /\ last.op = "fast_return"
    /\ ~Blocked(last.by)
    /\ \E k \in 1..Len(fast_log) :
          fast_log[k].id = last.id /\ fast_log[k].from = last.by

\* the target of the fast_send with message id
FastDest(id) ==
    fast_log[CHOOSE k \in 1..Len(fast_log) : fast_log[k].id = id].dest

\* actor a is inside a fast_send whose message is not yet processed
Waiting(a) == Blocked(a) /\ blocked_on[a] \notin processed

\* actor a waits in a fast_send on b
WaitsOn(a, b) == Waiting(a) /\ FastDest(blocked_on[a]) = b

RECURSIVE WaitChain(_, _)
\* the chain of fast_send waits that starts at a is at least n long
WaitChain(a, n) ==
    IF n = 0 THEN TRUE
    ELSE Waiting(a) /\ WaitChain(FastDest(blocked_on[a]), n - 1)

\* a's fast_send waits, directly or through other waiting callees, on a cycle
\* of fast_sends (a chain longer than the number of actors repeats an actor)
Stuck(a) == WaitChain(a, Cardinality(Actors))

\* C10: once the callee of a fast_send has issued a fast_send back to an actor
\* of the same call chain, none of the calls ever returns; a fast_send that
\* waits on no such cycle always returns (unless the process has ended or the
\* call graph has become cyclic).
C10_CyclicFastSendDeadlocks ==
    /\ [][\A a \in Actors : Stuck(a) => (Stuck(a))' /\ blocked_on'[a] = blocked_on[a]]_vars
    /\ \A a \in Actors :
          (Blocked(a) /\ ~Stuck(a)) ~> (~Blocked(a) \/ Stuck(a) \/ ~alive)

\* C10 witness: caller and callee each wait in a fast_send on the other, the
\* callee's one issued from the handler of the caller's message
C10_Witness ==
    \E a, b \in Actors :
        /\ a # b
        /\ WaitsOn(a, b) /\ WaitsOn(b, a)
        /\ current[b].id = blocked_on[a]

----------------------------------------------------------------------------
(* The bridge entry points and their lifecycle, called as the FFI test does *)

\* rust_actor_send(...) to a name that is not registered returns -1
STATUS_NOT_FOUND == -1

Statuses == {"Delivered", "NotFound", "DecodeError", "NotReady"}

\* the int32_t a status crosses the boundary as
StatusCode(status) ==
    CASE status = "Delivered" -> 0
      [] status = "NotFound" -> STATUS_NOT_FOUND
      [] status = "DecodeError" -> STATUS_NOT_FOUND - 1
      [] status = "NotReady" -> STATUS_NOT_FOUND - 2
      [] OTHER -> 1

\* names, senders and ids the test passes to the bridge
TestNames == Names \cup {"nonexistent_actor"}
TestSenders == {"", "test_sender"}
TestIds == {MSG_PING, MSG_MYMESSAGE}

\* the bridge function that enters runtime rt
BridgeFn(rt) == IF rt = "rust" THEN "rust_actor_send" ELSE "cpp_actor_send"

\* rust_actor_exists / cpp_actor_exists: an int32_t the callers use as a truth
\* value (if (rust_actor_exists(name.c_str())), if cpp_actor_exists(name)).
\* Without the bridge's (or the lookup's) init the name is not found.
bridge_exists(br, reg, rt, name) ==
    IF br[rt] = "ready" /\ name \in reg[rt] THEN 1 ELSE 0

\* an entry point that uses the Manager pointer before init stored it
deliver_unguarded(br, reg, call) ==
    IF br[TargetRuntime(call.fn)] # "ready"
    THEN [status |-> "Fault", fault |-> TRUE]
    ELSE [status |-> BridgeStatus(reg, call), fault |-> FALSE]

\* rust_actor_send / cpp_actor_send with the lifecycle guard: a bridge that is
\* not initialised answers NotReady; every outcome is a status, none a fault.
deliver(br, reg, call) ==
    IF br[TargetRuntime(call.fn)] # "ready"
    THEN [status |-> "NotReady", fault |-> FALSE]
    ELSE [status |-> BridgeStatus(reg, call), fault |-> FALSE]

\* rust_actor_init(mgr) / cpp_actor_init(&mgr)
BridgeInit(rt) ==
    /\ alive
    /\ bridge[rt] = "uninit"
    /\ bridge' = [bridge EXCEPT ![rt] = "ready"]
    /\ last' = [op |-> "bridge_init", into |-> rt]
    /\ UNCHANGED <<registry, actor_ref, mailbox, current, blocked_on, processed,
                   fast_log, next_id, alive, lookup_ready, mgr, pc, local>>

\* rust_actor_shutdown() / cpp_actor_shutdown()
BridgeShutdown(rt) ==
    /\ alive
    /\ bridge[rt] = "ready"
    /\ bridge' = [bridge EXCEPT ![rt] = "down"]
    /\ last' = [op |-> "bridge_shutdown", into |-> rt]
    /\ UNCHANGED <<registry, actor_ref, mailbox, current, blocked_on, processed,
                   fast_log, next_id, alive, lookup_ready, mgr, pc, local>>

\* int exists = rust_actor_exists("nonexistent_actor")
ExistsCall(rt, name) ==
    /\ alive
    /\ LET result == bridge_exists(bridge, registry, rt, name)
       IN  last' = [op |-> "exists", into |-> rt, name |-> name,
                    state |-> bridge[rt], registered |-> name \in registry[rt],
                    result |-> result,
                    status |-> IF result # 0 THEN "Found" ELSE "NotFound",
                    before |-> <<registry, mailbox>>]
    /\ UNCHANGED <<registry, actor_ref, mailbox, current, blocked_on, processed,
                   fast_log, next_id, alive>>
    /\ UNCHANGED env

\* int result = rust_actor_send("nonexistent_actor", "test_sender", 1000, &ping)
DeliverCall(rt, name, sender, mtype) ==
    /\ alive
    /\ next_id <= MaxMsgs
    /\ LET call == [made |-> TRUE, fn |-> BridgeFn(rt), actor_name |-> name,
                    sender_name |-> sender, msg_type |-> mtype]
           d == deliver(bridge, registry, call)
           m == [id |-> next_id, kind |-> "send", mtype |-> mtype,
                 from |-> MainThread, sender |-> ProxySender(sender)]
           delivered == d.status = "Delivered"
       IN  /\ mailbox' = IF delivered
                         THEN [mailbox EXCEPT ![<<rt, name>>] = Append(@, m)]
                         ELSE mailbox
           /\ next_id' = IF delivered THEN next_id + 1 ELSE next_id
           /\ alive' = ~d.fault
           /\ last' = [op |-> "deliver", into |-> rt, call |-> call,
                       state |-> bridge[rt],
                       registered |-> name \in registry[rt],
                       status |-> d.status, rc |-> StatusCode(d.status),
                       id |-> m.id, before |-> <<registry, mailbox>>]
    /\ UNCHANGED <<registry, actor_ref, current, blocked_on, processed,
                   fast_log>>
    /\ UNCHANGED env

\* The FFI test's process: no managers run, the bridges are not initialised,
\* each table holds some of its runtime's names.
BridgeInitial ==
    /\ registry \in {r \in [RT -> SUBSET Names] :
                        \A rt \in RT : r[rt] \subseteq OwnNames(rt)}
    /\ actor_ref = [a \in Actors |-> NoRef]
    /\ mailbox = [a \in Actors |-> <<>>]
    /\ current = [a \in Actors |-> NoMsg]
    /\ blocked_on = [a \in Actors |-> 0]
    /\ processed = {}
    /\ fast_log = <<>>
    /\ next_id = 1
    /\ alive = TRUE
    /\ last = [op |-> "init"]
    /\ bridge = [rt \in RT |-> "uninit"]
    /\ lookup_ready = FALSE
    /\ mgr = [rt \in RT |-> "none"]
    /\ pc = NoMain
    /\ local = NoLocal

BridgeNext ==
    \/ \E rt \in RT : BridgeInit(rt)
    \/ \E rt \in RT : BridgeShutdown(rt)
    \/ \E rt \in RT, name \in TestNames : ExistsCall(rt, name)
    \/ \E rt \in RT, name \in TestNames, sender \in TestSenders,
          mtype \in TestIds : DeliverCall(rt, name, sender, mtype)

BridgeSpec == BridgeInitial /\ [][BridgeNext]_vars

\* C11 (as stated): a deliver or exists call issued before the target
\* runtime's bridge init has completed returns NotReady, ends no process and
\* changes no state.
C11_NotReadyBeforeInit ==
    (last.op \in {"deliver", "exists"} /\ last.state = "uninit")
    => /\ last.status = "NotReady"
       /\ alive
       /\ <<registry, mailbox>> = last.before

\* C12: with the Rust bridge initialised, for a name that is not in the Rust
\* registry rust_actor_exists returns 0 and rust_actor_send returns -1
\* (NotFound) whatever the sender and the type id, and neither call changes
\* the registry or a queue.
C12_NotFoundMinusOne ==
    (last.op \in {"deliver", "exists"} /\ last.into = "rust"
        /\ last.state = "ready" /\ ~last.registered)
    => /\ last.op = "exists" => last.result = 0
       /\ last.op = "deliver"
          => (last.status = "NotFound" /\ last.rc = STATUS_NOT_FOUND)
       /\ <<registry, mailbox>> = last.before

\* C12 witness: rust_actor_send to a name that is not registered, with a
\* sender and a type id that no schema declares
C12_Witness ==
    /\ last.op = "deliver"
    /\ last.into = "rust"
    /\ last.state = "ready"
    /\ last.call.actor_name = "nonexistent_actor"
    /\ last.call.sender_name = "test_sender"
    /\ last.call.msg_type \notin DeclaredIds
    /\ last.rc = STATUS_NOT_FOUND

\* C13: in every bridge state, for every target name and type id, deliver
\* returns an integer status and ends no process.
C13_NoFaultCrosses ==
    last.op = "deliver"
    => /\ last.status \in Statuses
       /\ last.rc \in Int
       /\ alive

\* C13 witness: deliver into a bridge that was shut down, to a registered
\* name, with an unknown type id
C13_Witness ==
    /\ last.op = "deliver"
    /\ last.state = "down"
    /\ last.registered
    /\ last.call.msg_type \notin DeclaredIds
    /\ alive

\* the last operation was a cross-runtime send of a message whose type id is
\* not a declared interop message type
UnknownTypeSent ==
    /\ last.op = "send"
    /\ IsCross(RefUsed)
    /\ (~last.call.made \/ last.call.msg_type \notin DeclaredIds)

\* C14 (as stated): a message whose type id is not a registered message type
\* is dropped and the failure is reported as a status: it reaches no queue and
\* the sender gets DecodeError rather than nothing.
C14_UnknownTypeReported ==
    UnknownTypeSent
    => /\ \A b \in Actors : last.id \notin QueuedIds(b)
       /\ last.status = "DecodeError"

----------------------------------------------------------------------------
(* The message codec: to_c_struct / from_c_struct over the declared structs *)

\* longest string handed to the codec
MaxStrLen == 66

\* #define INTEROP_STRING_MAX 64; char topic[32]; char symbol[8]; double
\* bid_prices[5]
INTEROP_STRING_MAX == 64
TOPIC_LEN == 32
SYMBOL_LEN == 8
DEPTH_LEVELS == 5

\* '\0'
NUL == 0

\* the characters of the strings (not NUL)
Chars == {1, 2}

\* what a byte nobody wrote may hold
Garbage == Chars \cup {NUL}

Min(a, b) == IF a < b THEN a ELSE b

\* strings of n characters with recognisable content
Pattern(n, k) == [i \in 1..n |-> 1 + ((i * k) % 2)]

StrValues == {Pattern(n, k) : n \in 0..MaxStrLen, k \in 1..2}

\* std::fill(a.begin(), a.end(), '\0'); std::copy(s.begin(),
\* s.begin() + std::min(s.size(), a.size() - 1), a.begin())
FillArray(str, n) ==
    [i \in 1..n |-> IF i <= Min(Len(str), n - 1) THEN str[i] ELSE NUL]

Topics == {FillArray(Pattern(n, k), TOPIC_LEN) : n \in {0, 4, 31}, k \in 1..2}
Symbols == {FillArray(Pattern(n, k), SYMBOL_LEN) : n \in {4, 7}, k \in 1..2}
Int32Values == {-2147483647 - 1, -1, 0, 42, 2147483647}
Levels == {[i \in 1..DEPTH_LEVELS |-> i * k] : k \in {0, 100}}

\* values of the generated C++ message classes (namespace msg)
Messages ==
    {[id |-> i, count |-> c] : i \in {MSG_PING, MSG_PONG}, c \in Int32Values}
    \cup {[id |-> MSG_DATAREQUEST, request_id |-> 123, symbol |-> str] :
             str \in StrValues}
    \cup {[id |-> MSG_DATARESPONSE, request_id |-> 123, value |-> v,
           found |-> f] : v \in {0, 15025}, f \in BOOLEAN}
    \cup {[id |-> i, topic |-> t] :
             i \in {MSG_SUBSCRIBE, MSG_UNSUBSCRIBE}, t \in Topics}
    \cup {[id |-> MSG_MARKETUPDATE, symbol |-> sy, price |-> 15025,
           timestamp |-> 2147483647, volume |-> v] :
             sy \in Symbols, v \in {0, 100}}
    \cup {[id |-> MSG_MARKETDEPTH, symbol |-> sy, num_levels |-> n,
           bid_prices |-> l, ask_prices |-> l, bid_sizes |-> l,
           ask_sizes |-> l] : sy \in Symbols, n \in {0, 3}, l \in Levels}

\* element-wise copy of a fixed-size array (std::array <-> C array)
CopyArray(a, n) == [i \in 1..n |-> a[i]]

\* the number of characters strncpy(dst, src, INTEROP_STRING_MAX - 1) takes
CopiedChars(str) == Min(Len(str), INTEROP_STRING_MAX - 1)

\* an encoder that leaves room for one character less
StringToC_short(str, g) ==
    [data |-> [i \in 1..INTEROP_STRING_MAX |->
                  IF i <= Min(Len(str), INTEROP_STRING_MAX - 2) THEN str[i]
                  ELSE IF i <= INTEROP_STRING_MAX - 1 THEN NUL
                  ELSE g],
     len |-> Len(str)]

\* std::strncpy(req.symbol.data, symbol, INTEROP_STRING_MAX - 1);
\* req.symbol.len = strlen(symbol);
\* strncpy pads with NUL up to its count; the last byte of data is not written
\* (g: what it held).
StringToC(str, g) ==
    [data |-> [i \in 1..INTEROP_STRING_MAX |->
                  IF i <= CopiedChars(str) THEN str[i]
                  ELSE IF i <= INTEROP_STRING_MAX - 1 THEN NUL
                  ELSE g],
     len |-> Len(str)]

\* std::string(req.symbol.data, req.symbol.len): len bytes starting at data;
\* a byte past the buffer holds whatever is there (g)
StringFromC(c, g) ==
    [i \in 1..c.len |-> IF i <= INTEROP_STRING_MAX THEN c.data[i] ELSE g]

\* the bytes a decode of the string reads, counted from data[0]
BytesRead(c) == c.len

\* msg::X::to_c_struct()
to_c_struct(m, g) ==
    CASE m.id \in {MSG_PING, MSG_PONG} -> [id |-> m.id, count |-> m.count]
      [] m.id = MSG_DATAREQUEST ->
            [id |-> m.id, request_id |-> m.request_id,
             symbol |-> StringToC(m.symbol, g)]
      [] m.id = MSG_DATARESPONSE ->
            [id |-> m.id, request_id |-> m.request_id, value |-> m.value,
             found |-> IF m.found THEN 1 ELSE 0]
      [] m.id \in {MSG_SUBSCRIBE, MSG_UNSUBSCRIBE} ->
            [id |-> m.id, topic |-> CopyArray(m.topic, TOPIC_LEN)]
      [] m.id = MSG_MARKETUPDATE ->
            [id |-> m.id, symbol |-> CopyArray(m.symbol, SYMBOL_LEN),
             price |-> m.price, timestamp |-> m.timestamp,
             volume |-> m.volume]
      [] m.id = MSG_MARKETDEPTH ->
            [id |-> m.id, symbol |-> CopyArray(m.symbol, SYMBOL_LEN),
             num_levels |-> m.num_levels,
             bid_prices |-> CopyArray(m.bid_prices, DEPTH_LEVELS),
             ask_prices |-> CopyArray(m.ask_prices, DEPTH_LEVELS),
             bid_sizes |-> CopyArray(m.bid_sizes, DEPTH_LEVELS),
             ask_sizes |-> CopyArray(m.ask_sizes, DEPTH_LEVELS)]

\* msg::X::from_c_struct(c)
from_c_struct(c, g) ==
    CASE c.id \in {MSG_PING, MSG_PONG} -> [id |-> c.id, count |-> c.count]
      [] c.id = MSG_DATAREQUEST ->
            [id |-> c.id, request_id |-> c.request_id,
             symbol |-> StringFromC(c.symbol, g)]
      [] c.id = MSG_DATARESPONSE ->
            [id |-> c.id, request_id |-> c.request_id, value |-> c.value,
             found |-> c.found # 0]
      [] c.id \in {MSG_SUBSCRIBE, MSG_UNSUBSCRIBE} ->
            [id |-> c.id, topic |-> CopyArray(c.topic, TOPIC_LEN)]
      [] c.id = MSG_MARKETUPDATE ->
            [id |-> c.id, symbol |-> CopyArray(c.symbol, SYMBOL_LEN),
             price |-> c.price, timestamp |-> c.timestamp,
             volume |-> c.volume]
      [] c.id = MSG_MARKETDEPTH ->
            [id |-> c.id, symbol |-> CopyArray(c.symbol, SYMBOL_LEN),
             num_levels |-> c.num_levels,
             bid_prices |-> CopyArray(c.bid_prices, DEPTH_LEVELS),
             ask_prices |-> CopyArray(c.ask_prices, DEPTH_LEVELS),
             bid_sizes |-> CopyArray(c.bid_sizes, DEPTH_LEVELS),
             ask_sizes |-> CopyArray(c.ask_sizes, DEPTH_LEVELS)]

\* a message is encoded on one side of the boundary and decoded on the other
Codec(m, g) ==
    /\ LET c == to_c_struct(m, g)
       IN  last' = [op |-> "codec", m |-> m, c |-> c,
                    back |-> from_c_struct(c, g),
                    stored |-> IF m.id = MSG_DATAREQUEST
                               THEN CopiedChars(m.symbol) ELSE 0,
                    bytes_read |-> IF m.id = MSG_DATAREQUEST
                                   THEN BytesRead(c.symbol) ELSE 0]
    /\ UNCHANGED <<registry, actor_ref, mailbox, current, blocked_on, processed,
                   fast_log, next_id, alive>>
    /\ UNCHANGED env

CodecInitial == BridgeInitial /\ registry = [rt \in RT |-> {}]

CodecNext == \E m \in Messages, g \in Garbage : Codec(m, g)

CodecSpec == CodecInitial /\ [][CodecNext]_vars

\* every field of the message fits its declared size
WithinBounds(m) ==
    m.id = MSG_DATAREQUEST => Len(m.symbol) <= INTEROP_STRING_MAX - 1

----------------------------------------------------------------------------
(* The examples' main(): start-up and shutdown sequences *)

Examples ==
    {"ping_pong", "pubsub", "rust_subscribes_cpp_publisher",
     "rust_ping_cpp_pong"}

\* statements 1-5 of every main(): C++ manager (its constructor manages the
\* C++ actor), cpp_actor_init(&mgr), create_rust_manager(),
\* register_rust_*(), rust_actor_init(rust_mgr)
Startup ==
    <<"cpp_manager", "cpp_actor_init", "create_rust_manager",
      "register_rust_actor", "rust_actor_init">>

\* a main() that initialises the Rust bridge before the Rust actor is
\* registered
MainProgram_init_first(example) ==
    <<"cpp_manager", "cpp_actor_init", "create_rust_manager",
      "rust_actor_init", "register_rust_actor",
      "cpp_mgr_init", "rust_manager_init", "cpp_mgr_end", "rust_manager_end",
      "rust_actor_shutdown", "cpp_actor_shutdown">>

\* a main() that shuts the Rust bridge down while the managers still run
MainProgram_shutdown_early(example) ==
    Startup \o
    <<"cpp_mgr_init", "rust_manager_init", "rust_actor_shutdown",
      "cpp_mgr_end", "rust_manager_end", "cpp_actor_shutdown">>

\* the statements of each example's main(), in program order
MainProgram(example) ==
    CASE example = "ping_pong" ->
            Startup \o
            <<"cpp_mgr_init", "rust_manager_init", "cpp_mgr_end",
              "rust_manager_end", "rust_actor_shutdown", "cpp_actor_shutdown">>
      [] example = "pubsub" ->
            Startup \o
            <<"init_cpp_actor_lookup", "cpp_mgr_init", "rust_manager_init",
              "sleep", "cpp_mgr_end", "rust_manager_end",
              "rust_actor_shutdown", "cpp_actor_shutdown">>
      [] example = "rust_subscribes_cpp_publisher" ->
            Startup \o
            <<"init_cpp_actor_lookup", "cpp_mgr_init", "rust_manager_init",
              "sleep", "publish", "publish", "publish", "cpp_mgr_end",
              "rust_manager_end", "rust_actor_shutdown", "cpp_actor_shutdown">>
      [] example = "rust_ping_cpp_pong" ->
            Startup \o
            <<"init_cpp_actor_lookup", "cpp_mgr_init", "rust_manager_init",
              "sleep", "rust_manager_end", "cpp_mgr_end",
              "rust_actor_shutdown", "cpp_actor_shutdown">>

\* the actor each runtime holds in an example (one per runtime; the model
\* gives them the names of the pubsub example)
ExampleActor(rt) ==
    IF rt = "cpp" THEN <<"cpp", "cpp_subscriber">>
    ELSE <<"rust", "rust_publisher">>

\* Manager end returns once the runtime's actor threads have left their
\* handlers
Joined(rt) == \A a \in Actors : RuntimeOf(a) = rt => current[a] = NoMsg

\* the next statement of main()
Statement == MainProgram(pc.example)[pc.at]

\* manage(actor) / register_rust_*(): the actor's name enters the table
Manage(rt) ==
    /\ registry' = [registry EXCEPT ![rt] = @ \cup {NameOf(ExampleActor(rt))}]
    /\ UNCHANGED <<mailbox, bridge, lookup_ready>>

\* a runtime that creates its actors' queues when it starts them, dropping
\* what was delivered before
QueueAtStart_fresh(queue) == <<StartMsg>>

\* The queue of an actor when its Manager starts it: a message delivered to a
\* registered actor before the start stays queued, and Start is queued
\* behind it
QueueAtStart(queue) == Append(queue, StartMsg)

\* mgr.init() / rust_manager_init(): Start goes to the managed actors
ManagerInit(rt) ==
    /\ mgr' = [mgr EXCEPT ![rt] = "started"]
    /\ mailbox' = [mailbox EXCEPT ![ExampleActor(rt)] = QueueAtStart(@)]
    /\ UNCHANGED <<registry, bridge, lookup_ready>>

\* mgr.end() / rust_manager_end()
ManagerEnd(rt) ==
    /\ Joined(rt)
    /\ mgr' = [mgr EXCEPT ![rt] = "ended"]
    /\ UNCHANGED <<registry, mailbox, bridge, lookup_ready>>

\* the main thread executes its next statement
MainStep ==
    /\ alive
    /\ pc.example \in Examples
    /\ pc.at <= Len(MainProgram(pc.example))
    /\ \/ /\ Statement = "cpp_manager"
          /\ mgr' = [mgr EXCEPT !["cpp"] = "created"]
          /\ Manage("cpp")
       \/ /\ Statement = "cpp_actor_init"
          /\ bridge' = [bridge EXCEPT !["cpp"] = "ready"]
          /\ UNCHANGED <<registry, mailbox, mgr, lookup_ready>>
       \/ /\ Statement = "create_rust_manager"
          /\ mgr' = [mgr EXCEPT !["rust"] = "created"]
          /\ UNCHANGED <<registry, mailbox, bridge, lookup_ready>>
       \/ /\ Statement = "register_rust_actor"
          /\ Manage("rust")
          /\ UNCHANGED mgr
       \/ /\ Statement = "rust_actor_init"
          /\ bridge' = [bridge EXCEPT !["rust"] = "ready"]
          /\ UNCHANGED <<registry, mailbox, mgr, lookup_ready>>
       \/ /\ Statement = "init_cpp_actor_lookup"
          /\ lookup_ready' = TRUE
          /\ UNCHANGED <<registry, mailbox, mgr, bridge>>
       \/ /\ Statement = "cpp_mgr_init"
          /\ ManagerInit("cpp")
       \/ /\ Statement = "rust_manager_init"
          /\ ManagerInit("rust")
       \/ /\ Statement \in {"sleep", "publish"}  \* publish() sends from main
          /\ UNCHANGED <<registry, mailbox, mgr, bridge, lookup_ready>>
       \/ /\ Statement = "cpp_mgr_end"
          /\ ManagerEnd("cpp")
       \/ /\ Statement = "rust_manager_end"
          /\ ManagerEnd("rust")
       \/ /\ Statement = "rust_actor_shutdown"
          /\ bridge' = [bridge EXCEPT !["rust"] = "down"]
          /\ UNCHANGED <<registry, mailbox, mgr, lookup_ready>>
       \/ /\ Statement = "cpp_actor_shutdown"
          /\ bridge' = [bridge EXCEPT !["cpp"] = "down"]
          /\ UNCHANGED <<registry, mailbox, mgr, lookup_ready>>
    /\ pc' = [pc EXCEPT !.at = @ + 1]
    /\ last' = [op |-> "main", statement |-> Statement]
    /\ UNCHANGED <<actor_ref, current, blocked_on, processed, fast_log,
                   next_id, alive, local>>

\* a running handler sends to the example's actor of the other runtime:
\* the bridge call enters the peer while the handler runs
HandlerDeliver(a) ==
    /\ CanAct(a)
    /\ next_id <= MaxMsgs
    /\ LET into == Peer(RuntimeOf(a))
           dest == ExampleActor(into)
           call == [made |-> TRUE, fn |-> BridgeFn(into),
                    actor_name |-> NameOf(dest), sender_name |-> NameOf(a),
                    msg_type |-> MSG_PING]
           d == deliver(bridge, registry, call)
           m == [id |-> next_id, kind |-> "send", mtype |-> MSG_PING,
                 from |-> a, sender |-> ProxySender(NameOf(a))]
       IN  /\ mailbox' = IF d.status = "Delivered"
                         THEN [mailbox EXCEPT ![dest] = Append(@, m)]
                         ELSE mailbox
           /\ next_id' = IF d.status = "Delivered" THEN next_id + 1
                         ELSE next_id
           /\ last' = [op |-> "actor_deliver", by |-> a, into |-> into,
                       state |-> bridge[into], status |-> d.status,
                       id |-> m.id]
    /\ UNCHANGED <<registry, actor_ref, current, blocked_on, processed,
                   fast_log, alive>>
    /\ UNCHANGED env

\* the process at the first statement of one of the examples' main()
MainInitial ==
    /\ registry = [rt \in RT |-> {}]
    /\ actor_ref = [a \in Actors |-> NoRef]
    /\ mailbox = [a \in Actors |-> <<>>]
    /\ current = [a \in Actors |-> NoMsg]
    /\ blocked_on = [a \in Actors |-> 0]
    /\ processed = {}
    /\ fast_log = <<>>
    /\ next_id = 1
    /\ alive = TRUE
    /\ last = [op |-> "init"]
    /\ bridge = [rt \in RT |-> "uninit"]
    /\ lookup_ready = FALSE
    /\ mgr = [rt \in RT |-> "none"]
    /\ pc \in {[example |-> e, at |-> 1] : e \in Examples}
    /\ local = NoLocal

MainNext ==
    \/ MainStep
    \/ \E a \in Clients : HandlerStart(a)
    \/ \E a \in Clients : HandlerEnd(a)
    \/ \E a \in Clients : HandlerDeliver(a)

MainSpec == MainInitial /\ [][MainNext]_vars

\* a manager has broadcast Start
ManagerStarted(rt) == mgr[rt] \in {"started", "ended"}

\* C17: in every example each runtime's actors are in its registry before
\* that runtime's bridge init is called, and both bridge inits have completed
\* before either manager broadcasts Start.
C17_TwoPhaseInit ==
    /\ \A rt \in RT :
          bridge[rt] # "uninit" => NameOf(ExampleActor(rt)) \in registry[rt]
    /\ (\E rt \in RT : ManagerStarted(rt)) => \A rt \in RT : bridge[rt] # "uninit"

\* C17 witness: both managers have broadcast Start over initialised bridges
C17_Witness ==
    /\ \A rt \in RT : mgr[rt] = "started" /\ bridge[rt] = "ready"
    /\ \A rt \in RT : NameOf(ExampleActor(rt)) \in registry[rt]

\* C18 (as stated): every example calls init_cpp_actor_lookup() after
\* rust_actor_init() and before either manager is started.
C18_LookupInitInEveryExample ==
    /\ lookup_ready => bridge["rust"] # "uninit"
    /\ (\E rt \in RT : ManagerStarted(rt)) => lookup_ready

\* C19: no deliver call enters a runtime whose bridge shutdown has begun, and
\* the bridges are shut down only after both managers have ended and no
\* handler is left inside a cross-runtime send.
C19_SequencedShutdown ==
    /\ last.op = "actor_deliver" => last.state # "down"
    /\ (last.op = "main" /\ last.statement = "publish")
       => bridge["rust"] # "down"
    /\ (\E rt \in RT : bridge[rt] = "down")
       => \A rt \in RT : mgr[rt] = "ended" /\ Joined(rt)

\* C19 witness: the Rust bridge is shut down after actors exchanged messages
\* across the boundary
C19_Witness ==
    /\ bridge["rust"] = "down"
    /\ next_id > 1
    /\ \A rt \in RT : mgr[rt] = "ended"

----------------------------------------------------------------------------
(* The pubsub example: MarketSubscriber (C++) and RustPublisher (Rust) *)

\* for i in 0..3 { ... self.cpp_subscriber.send(&update) }
NUM_UPDATES == 3

\* if (update_count_ >= 3) manager_->terminate()
UPDATES_EXPECTED == 3

\* AAPL @ $150.00, $150.25, $150.50 (in cents)
BASE_PRICE == 15000
PRICE_STEP == 25

Subscriber == <<"cpp", "cpp_subscriber">>
Publisher == <<"rust", "rust_publisher">>

\* the price of the i-th update the publisher sends
UpdatePrice(i) == BASE_PRICE + PRICE_STEP * (i - 1)

\* the updates in the order the publisher sends them
UpdatePrices == [i \in 1..NUM_UPDATES |-> UpdatePrice(i)]

\* a subscriber that signals completion one update early
ShouldTerminate_early(count) == count >= UPDATES_EXPECTED - 1

\* MarketSubscriber::on_update: if (update_count_ >= 3) terminate()
ShouldTerminate(count) == count >= UPDATES_EXPECTED

\* the handler of the message actor a is handling returns
Return(a) ==
    /\ processed' = processed \cup {current[a].id}
    /\ current' = [current EXCEPT ![a] = NoMsg]

\* MarketSubscriber::on_start: publisher_ref_ = get_ref("rust_publisher");
\* publisher_ref_.send(sub, this).  A throw leaves the noexcept handler.
on_start ==
    /\ CanAct(Subscriber)
    /\ current[Subscriber].mtype = MSG_START
    /\ LET r == get_ref(registry, "rust_publisher")
           plan == SendPlan(Subscriber, r.ref, MSG_SUBSCRIBE, registry)
           m == [id |-> next_id, kind |-> "send", mtype |-> MSG_SUBSCRIBE,
                 from |-> Subscriber, sender |-> plan.sender, price |-> 0]
           delivered == r.found /\ plan.status = "Delivered"
       IN  /\ alive' = r.found
           /\ actor_ref' = IF r.found
                           THEN [actor_ref EXCEPT ![Subscriber] = r.ref]
                           ELSE actor_ref
           /\ mailbox' = IF delivered
                         THEN Enqueued("send", Subscriber, plan.dest, m).mb
                         ELSE mailbox
           /\ next_id' = IF delivered THEN next_id + 1 ELSE next_id
           /\ last' = [op |-> "on_start", status |-> plan.status]
    /\ Return(Subscriber)
    /\ UNCHANGED <<registry, blocked_on, fast_log>>
    /\ UNCHANGED env

\* RustPublisher::on_subscribe, one turn of its loop: the next MarketUpdate
\* goes to the C++ subscriber through CppActorIF (cpp_actor_send)
on_subscribe ==
    /\ CanAct(Publisher)
    /\ current[Publisher].mtype = MSG_SUBSCRIBE
    /\ local.sent < NUM_UPDATES
    /\ LET i == local.sent + 1
           call == [made |-> TRUE, fn |-> "cpp_actor_send",
                    actor_name |-> NameOf(Subscriber),
                    sender_name |-> NameOf(Publisher),
                    msg_type |-> MSG_MARKETUPDATE]
           d == deliver(bridge, registry, call)
           m == [id |-> next_id, kind |-> "send", mtype |-> MSG_MARKETUPDATE,
                 from |-> Publisher, sender |-> ProxySender(NameOf(Publisher)),
                 price |-> UpdatePrice(i)]
       IN  /\ mailbox' = IF d.status = "Delivered"
                         THEN Enqueued("send", Publisher, Subscriber, m).mb
                         ELSE mailbox
           /\ next_id' = IF d.status = "Delivered" THEN next_id + 1
                         ELSE next_id
           /\ local' = [local EXCEPT !.sent = i]
           /\ last' = [op |-> "on_subscribe", status |-> d.status, i |-> i]
    /\ UNCHANGED <<registry, actor_ref, current, blocked_on, processed,
                   fast_log, alive, bridge, lookup_ready, mgr, pc>>

\* RustPublisher's handlers return: on_subscribe after its loop, on_start
\* at once
publisher_return ==
    /\ CanAct(Publisher)
    /\ \/ current[Publisher].mtype = MSG_START
       \/ current[Publisher].mtype = MSG_SUBSCRIBE /\ local.sent = NUM_UPDATES
    /\ Return(Publisher)
    /\ local' = [local EXCEPT !.sent = 0]
    /\ last' = [op |-> "publisher_return"]
    /\ UNCHANGED <<registry, actor_ref, mailbox, blocked_on, fast_log, next_id,
                   alive, bridge, lookup_ready, mgr, pc>>

\* MarketSubscriber::on_update: update_count_++; print; terminate after the
\* third
on_update ==
    /\ CanAct(Subscriber)
    /\ current[Subscriber].mtype = MSG_MARKETUPDATE
    /\ LET count == local.update_count + 1
       IN  local' = [local EXCEPT
                        !.update_count = count,
                        !.received = Append(@, current[Subscriber].price),
                        !.terminate_calls =
                            IF ShouldTerminate(count) THEN @ + 1 ELSE @]
    /\ Return(Subscriber)
    /\ last' = [op |-> "on_update"]
    /\ UNCHANGED <<registry, actor_ref, mailbox, blocked_on, fast_log, next_id,
                   alive, bridge, lookup_ready, mgr, pc>>

\* rust_manager_init(): Start reaches the Rust publisher
rust_manager_init ==
    /\ alive
    /\ mgr["rust"] = "created"
    /\ ManagerInit("rust")
    /\ last' = [op |-> "rust_manager_init"]
    /\ UNCHANGED <<actor_ref, current, blocked_on, processed, fast_log,
                   next_id, alive, pc, local>>

\* main() after the sleep: mgr.end() blocks until terminate() is called, then
\* rust_manager_end()
manager_end(rt) ==
    /\ alive
    /\ mgr[rt] = "started"
    /\ IF rt = "cpp" THEN local.terminate_calls > 0 ELSE mgr["cpp"] = "ended"
    /\ ManagerEnd(rt)
    /\ last' = [op |-> "manager_end", rt |-> rt]
    /\ UNCHANGED <<actor_ref, current, blocked_on, processed, fast_log,
                   next_id, alive, pc, local>>

\* pubsub's main() after mgr.init(): both actors registered, both bridges
\* initialised, Start queued for the C++ subscriber, rust_manager_init() next
PubSubInitial ==
    /\ registry = [rt \in RT |-> {NameOf(ExampleActor(rt))}]
    /\ actor_ref = [a \in Actors |-> NoRef]
    /\ mailbox = [a \in Actors |-> IF a = Subscriber THEN <<StartMsg>>
                                   ELSE <<>>]
    /\ current = [a \in Actors |-> NoMsg]
    /\ blocked_on = [a \in Actors |-> 0]
    /\ processed = {}
    /\ fast_log = <<>>
    /\ next_id = 1
    /\ alive = TRUE
    /\ last = [op |-> "init"]
    /\ bridge = [rt \in RT |-> "ready"]
    /\ lookup_ready = TRUE
    /\ mgr = [rt \in RT |-> IF rt = "cpp" THEN "started" ELSE "created"]
    /\ pc = NoMain
    /\ local = NoLocal

PubSubNext ==
    \/ rust_manager_init
    \/ \E rt \in RT : manager_end(rt)
    \/ \E a \in {Subscriber, Publisher} : HandlerStart(a)
    \/ on_start
    \/ on_subscribe
    \/ publisher_return
    \/ on_update

PubSubSpec == PubSubInitial /\ [][PubSubNext]_vars

\* main() and both schedulers keep running
FairPubSubSpec ==
    /\ PubSubSpec
    /\ WF_vars(rust_manager_init)
    /\ \A rt \in RT : WF_vars(manager_end(rt))
    /\ \A a \in {Subscriber, Publisher} : WF_vars(HandlerStart(a))
    /\ WF_vars(on_start)
    /\ WF_vars(on_subscribe)
    /\ WF_vars(publisher_return)
    /\ WF_vars(on_update)

\* the subscriber has received the first n updates, in the order sent
ReceivedInOrder ==
    /\ Len(local.received) <= NUM_UPDATES
    /\ local.received = SubSeq(UpdatePrices, 1, Len(local.received))
    /\ local.update_count = Len(local.received)

\* the subscriber has all three updates and has called terminate once
Completed ==
    /\ local.received = UpdatePrices
    /\ local.terminate_calls = 1

----------------------------------------------------------------------------
(* The registry tables: register, unregister, lookup, exists *)

\* no actor holds a reference or runs a handler; main() is not modelled
Idle ==
    /\ actor_ref = [a \in Actors |-> NoRef]
    /\ current = [a \in Actors |-> NoMsg]
    /\ blocked_on = [a \in Actors |-> 0]
    /\ processed = {}
    /\ fast_log = <<>>
    /\ next_id = 1
    /\ alive = TRUE
    /\ last = [op |-> "init"]
    /\ pc = NoMain

\* the actor objects a caller may pass to register (MyActor* actor,
\* Box<MyActor>)
Handles == {"actor_1", "actor_2"}

\* the entries of one table under a name
Entries(table, name) == {e \in table : e[1] = name}

\* lookup(name) -> Option<handle>: the handles found under the name
lookup(table, name) == {e[2] : e \in Entries(table, name)}

\* register that adds the entry without looking for the name
register_unchecked(table, name, h) ==
    [status |-> "Ok", table |-> table \cup {<<name, h>>}]

\* register(name, handle): DuplicateName if the name is present, the table
\* stays as it is
register(table, name, h) ==
    IF Entries(table, name) # {}
    THEN [status |-> "DuplicateName", table |-> table]
    ELSE [status |-> "Ok", table |-> table \cup {<<name, h>>}]

\* unregister(name)
unregister(table, name) == table \ Entries(table, name)

\* cpp_actor_register("my_actor", actor) /
\* rust_actor_register_boxed("my_actor", actor)
RegisterCall(rt, name, h) ==
    /\ LET r == register(local.table[rt], name, h)
       IN  /\ local' = [local EXCEPT !.table[rt] = r.table]
           /\ registry' = [registry EXCEPT ![rt] = {e[1] : e \in r.table}]
           /\ last' = [op |-> "register", rt |-> rt, name |-> name,
                       handle |-> h, status |-> r.status,
                       before |-> local.table[rt]]
    /\ UNCHANGED <<actor_ref, mailbox, current, blocked_on, processed,
                   fast_log, next_id, alive, bridge, lookup_ready, mgr, pc>>

\* cpp_actor_unregister("my_actor")
UnregisterCall(rt, name) ==
    /\ LET t == unregister(local.table[rt], name)
       IN  /\ local' = [local EXCEPT !.table[rt] = t]
           /\ registry' = [registry EXCEPT ![rt] = {e[1] : e \in t}]
           /\ last' = [op |-> "unregister", rt |-> rt, name |-> name,
                       before |-> local.table[rt]]
    /\ UNCHANGED <<actor_ref, mailbox, current, blocked_on, processed,
                   fast_log, next_id, alive, bridge, lookup_ready, mgr, pc>>

RegistryInitial ==
    /\ Idle
    /\ mailbox = [a \in Actors |-> <<>>]
    /\ registry = [rt \in RT |-> {}]
    /\ bridge = [rt \in RT |-> "ready"]
    /\ lookup_ready = TRUE
    /\ mgr = [rt \in RT |-> "none"]
    /\ local = [table |-> [rt \in RT |-> {}]]

RegistryNext ==
    \/ \E rt \in RT, name \in Names, h \in Handles : RegisterCall(rt, name, h)
    \/ \E rt \in RT, name \in Names : UnregisterCall(rt, name)

RegistrySpec == RegistryInitial /\ [][RegistryNext]_vars

\* C21: each runtime's table maps a name to at most one handle; register on a
\* name already present fails with DuplicateName and leaves the entry as it
\* was; after unregister(name), lookup(name) and the peer-visible
\* exists(name) report absent.
C21_RegistryNamesUnique ==
    /\ \A rt \in RT, name \in Names :
          Cardinality(lookup(local.table[rt], name)) <= 1
    /\ (last.op = "register" /\ Entries(last.before, last.name) # {})
          => /\ last.status = "DuplicateName"
             /\ local.table[last.rt] = last.before
    /\ (last.op = "register" /\ Entries(last.before, last.name) = {})
          => /\ last.status = "Ok"
             /\ lookup(local.table[last.rt], last.name) = {last.handle}
    /\ last.op = "unregister"
          => /\ lookup(local.table[last.rt], last.name) = {}
             /\ bridge_exists(bridge, registry, last.rt, last.name) = 0

\* C21 witness: a second register of a present name, with another handle, has
\* been refused
C21_Witness ==
    /\ last.op = "register"
    /\ last.status = "DuplicateName"
    /\ lookup(last.before, last.name) # {last.handle}
    /\ \E name \in Names : name # last.name /\ name \in registry[Peer(last.rt)]

----------------------------------------------------------------------------
(* The message schema: messages/interop_messages.h *)

\* a schema whose last declaration reuses the id of the one before
Schema_reused_id ==
    <<[name |-> "Ping", id |-> MSG_PING],
      [name |-> "Pong", id |-> MSG_PONG],
      [name |-> "DataRequest", id |-> MSG_DATAREQUEST],
      [name |-> "DataResponse", id |-> MSG_DATARESPONSE],
      [name |-> "Subscribe", id |-> MSG_SUBSCRIBE],
      [name |-> "Unsubscribe", id |-> MSG_UNSUBSCRIBE],
      [name |-> "MarketUpdate", id |-> MSG_MARKETUPDATE],
      [name |-> "MarketDepth", id |-> MSG_MARKETUPDATE]>>

\* the INTEROP_MESSAGE(name, id) declarations, in file order
Schema ==
    <<[name |-> "Ping", id |-> MSG_PING],
      [name |-> "Pong", id |-> MSG_PONG],
      [name |-> "DataRequest", id |-> MSG_DATAREQUEST],
      [name |-> "DataResponse", id |-> MSG_DATARESPONSE],
      [name |-> "Subscribe", id |-> MSG_SUBSCRIBE],
      [name |-> "Unsubscribe", id |-> MSG_UNSUBSCRIBE],
      [name |-> "MarketUpdate", id |-> MSG_MARKETUPDATE],
      [name |-> "MarketDepth", id |-> MSG_MARKETDEPTH]>>

\* the declarations that give a message type its id
DeclarationsOf(id) == {i \in DOMAIN Schema : Schema[i].id = id}

\* C22: every message type declared in the schema has an id >= 1000 and no
\* two declared message types share an id, so every message value that is
\* encoded belongs to exactly one declaration.
C22_SchemaIdsUniqueAndInRange ==
    /\ \A i \in DOMAIN Schema : Schema[i].id >= INTEROP_ID_BASE
    /\ \A i, j \in DOMAIN Schema :
          i # j => /\ Schema[i].id # Schema[j].id
                   /\ Schema[i].name # Schema[j].name
    /\ {Schema[i].id : i \in DOMAIN Schema} = DeclaredIds
    /\ last.op = "codec" => Cardinality(DeclarationsOf(last.m.id)) = 1

\* C22 witness: a value of the last declared type (MarketDepth) is encoded
C22_Witness ==
    /\ last.op = "codec"
    /\ last.m.id = Schema[Len(Schema)].id
    /\ last.m.id = MSG_MARKETDEPTH

----------------------------------------------------------------------------
(* The ping_pong example: PingActor (C++) and RustPongActor (Rust) *)

\* new PingActor(this, 5)
MAX_COUNT == 5

\* on_start sends msg::Ping{1}
FIRST_COUNT == 1

\* the example's C++ actor (cpp_ping) and its Rust actor (rust_pong); the
\* model gives the actor pair of every example the same two names
PingActor == ExampleActor("cpp")
RustPongActor == ExampleActor("rust")

\* PingActor(actors::Actor* mgr, int max = 5): the values of max the runs are
\* made with, up to the one PingManager passes
MaxCounts == FIRST_COUNT..MAX_COUNT

\* the local state of the two actors: max_count_, and what was sent, received
\* and signalled so far
PingLocal(max) ==
    [max_count |-> max, pings |-> <<>>, pongs |-> <<>>, terminate_calls |-> 0]

\* ref.send(new msg::X{count}, this): the message is queued at the target the
\* reference routes to, if the delivery succeeds
SendCounted(a, ref, mtype, count) ==
    LET plan == SendPlan(a, ref, mtype, registry)
        m == [id |-> next_id, kind |-> "send", mtype |-> mtype, from |-> a,
              sender |-> plan.sender, count |-> count]
        delivered == plan.status = "Delivered"
    IN  /\ mailbox' = IF delivered
                      THEN Enqueued("send", a, plan.dest, m).mb
                      ELSE mailbox
        /\ next_id' = IF delivered THEN next_id + 1 ELSE next_id

\* an on_start that sends the first Ping through a local reference and leaves
\* the member pong_ref_ unassigned
PingActor_on_start_unassigned ==
    /\ CanAct(PingActor)
    /\ current[PingActor].mtype = MSG_START
    /\ LET r == get_ref(registry, NameOf(RustPongActor))
       IN  /\ alive' = r.found
           /\ IF r.found
              THEN /\ SendCounted(PingActor, r.ref, MSG_PING, FIRST_COUNT)
                   /\ local' = [local EXCEPT !.pings = Append(@, FIRST_COUNT)]
              ELSE UNCHANGED <<mailbox, next_id, local>>
    /\ Return(PingActor)
    /\ last' = [op |-> "on_start", by |-> PingActor]
    /\ UNCHANGED <<registry, actor_ref, blocked_on, fast_log, bridge,
                   lookup_ready, mgr, pc>>

\* PingActor::on_start: pong_ref_ = get_ref("rust_pong");
\* pong_ref_.send(new msg::Ping{1}, this)
PingActor_on_start ==
    /\ CanAct(PingActor)
    /\ current[PingActor].mtype = MSG_START
    /\ LET r == get_ref(registry, NameOf(RustPongActor))
       IN  /\ alive' = r.found
           /\ IF r.found
              THEN /\ actor_ref' = [actor_ref EXCEPT ![PingActor] = r.ref]
                   /\ SendCounted(PingActor, r.ref, MSG_PING, FIRST_COUNT)
                   /\ local' = [local EXCEPT !.pings = Append(@, FIRST_COUNT)]
              ELSE UNCHANGED <<actor_ref, mailbox, next_id, local>>
    /\ Return(PingActor)
    /\ last' = [op |-> "on_start", by |-> PingActor]
    /\ UNCHANGED <<registry, blocked_on, fast_log, bridge, lookup_ready, mgr,
                   pc>>

\* a PingActor that stops one Pong late
PingDone_late(count, max) == count > max

\* a PingActor that stops one Pong early
PingDone_early(count, max) == count >= max - 1

\* PingActor::on_pong: if (m->count >= max_count_)
PingDone(count, max) == count >= max

\* PingActor::on_pong: terminate at max_count_, else send Ping{count + 1}
on_pong ==
    /\ CanAct(PingActor)
    /\ current[PingActor].mtype = MSG_PONG
    /\ LET count == current[PingActor].count
       IN  IF PingDone(count, local.max_count)
           THEN /\ local' = [local EXCEPT !.pongs = Append(@, count),
                                          !.terminate_calls = @ + 1]
                /\ UNCHANGED <<mailbox, next_id>>
           ELSE /\ SendCounted(PingActor, actor_ref[PingActor], MSG_PING,
                               count + 1)
                /\ local' = [local EXCEPT !.pongs = Append(@, count),
                                          !.pings = Append(@, count + 1)]
    /\ Return(PingActor)
    /\ last' = [op |-> "on_pong", by |-> PingActor,
                ref |-> actor_ref[PingActor],
                sent |-> ~PingDone(current[PingActor].count, local.max_count)]
    /\ UNCHANGED <<registry, actor_ref, blocked_on, fast_log, alive, bridge,
                   lookup_ready, mgr, pc>>

\* RustPongActor::on_ping: let pong = Pong { count: msg.count };
\* self.cpp_ping.send(&pong)
RustPongActor_on_ping ==
    /\ CanAct(RustPongActor)
    /\ current[RustPongActor].mtype = MSG_PING
    /\ SendCounted(RustPongActor,
                   CppActorRef(NameOf(PingActor), NameOf(RustPongActor)),
                   MSG_PONG, current[RustPongActor].count)
    /\ Return(RustPongActor)
    /\ last' = [op |-> "on_ping", by |-> RustPongActor]
    /\ UNCHANGED <<registry, actor_ref, blocked_on, fast_log, alive, local>>
    /\ UNCHANGED <<bridge, lookup_ready, mgr, pc>>

\* handle_messages!(RustPongActor, Ping => on_ping): Start has no handler
RustPongActor_other ==
    /\ CanAct(RustPongActor)
    /\ current[RustPongActor].mtype # MSG_PING
    /\ Return(RustPongActor)
    /\ last' = [op |-> "unhandled", by |-> RustPongActor]
    /\ UNCHANGED <<registry, actor_ref, mailbox, blocked_on, fast_log, next_id,
                   alive, local>>
    /\ UNCHANGED <<bridge, lookup_ready, mgr, pc>>

\* ping_pong's main() after mgr.init(): both actors registered, both bridges
\* initialised, Start queued for PingActor, rust_manager_init() next
PingPongInitial ==
    /\ Idle
    /\ mailbox = [a \in Actors |-> IF a = PingActor THEN <<StartMsg>> ELSE <<>>]
    /\ registry = [rt \in RT |-> {NameOf(ExampleActor(rt))}]
    /\ bridge = [rt \in RT |-> "ready"]
    /\ lookup_ready = FALSE
    /\ mgr = [rt \in RT |-> IF rt = "cpp" THEN "started" ELSE "created"]
    /\ local \in {PingLocal(max) : max \in MaxCounts}

PingPongNext ==
    \/ rust_manager_init
    \/ \E rt \in RT : manager_end(rt)
    \/ \E a \in {PingActor, RustPongActor} : HandlerStart(a)
    \/ PingActor_on_start
    \/ on_pong
    \/ RustPongActor_on_ping
    \/ RustPongActor_other

PingPongSpec == PingPongInitial /\ [][PingPongNext]_vars

\* main() and both schedulers keep running
FairPingPongSpec ==
    /\ PingPongSpec
    /\ WF_vars(rust_manager_init)
    /\ \A rt \in RT : WF_vars(manager_end(rt))
    /\ \A a \in {PingActor, RustPongActor} : WF_vars(HandlerStart(a))
    /\ WF_vars(PingActor_on_start)
    /\ WF_vars(on_pong)
    /\ WF_vars(RustPongActor_on_ping)
    /\ WF_vars(RustPongActor_other)

\* the counts 1, 2, ..., n
Counting(n) == [i \in 1..n |-> FIRST_COUNT + i - 1]

\* PingActor has received Pong(max)
GotLastPong ==
    /\ local.pongs # <<>>
    /\ local.pongs[Len(local.pongs)] = local.max_count

\* C23: with every Ping(n) answered by one Pong(n), PingActor sends Ping(1) on
\* Start and then Ping(2)..Ping(max), one per received Pong, the counts
\* increasing by 1; it never sends a Ping with a count above max; it calls
\* terminate exactly once, on receiving Pong(max).
C23_PingSequence ==
    /\ local.pings = Counting(Len(local.pings))
    /\ local.pongs = Counting(Len(local.pongs))
    /\ Len(local.pings) <= local.max_count
    /\ Len(local.pings) \in {Len(local.pongs), Len(local.pongs) + 1}
    /\ Len(local.pings) = Len(local.pongs)
          => (local.pings = <<>> \/ GotLastPong)
    /\ local.terminate_calls = IF GotLastPong THEN 1 ELSE 0

\* C23 witness: with max = 5, Pong(5) has been handled and terminate called
C23_Witness ==
    /\ local.max_count = MAX_COUNT
    /\ last.op = "on_pong"
    /\ local.pings = Counting(MAX_COUNT)
    /\ GotLastPong
    /\ local.terminate_calls = 1

\* C24: under fair scheduling of both runtimes and a pong actor that echoes
\* each count, PingActor eventually receives Pong(max) and calls terminate,
\* and mgr.end() eventually returns (and not before terminate was called).
C24_PingPongTerminates ==
    /\ [](mgr["cpp"] = "ended" => local.terminate_calls > 0)
    /\ <>[](/\ GotLastPong
            /\ local.terminate_calls = 1
            /\ mgr["cpp"] = "ended")

\* C24 witness: mgr.end() has returned in the run with max = 5
C24_Witness ==
    /\ local.max_count = MAX_COUNT
    /\ last.op = "manager_end"
    /\ last.rt = "cpp"
    /\ GotLastPong
    /\ mgr["cpp"] = "ended"

----------------------------------------------------------------------------
(* The rust_ping_cpp_pong example: RustPingActor (Rust), CppPongActor (C++) *)

\* RustPingActor::on_pong: if msg.count < 3
ROUNDS == 3

\* the example's C++ actor (cpp_pong) and its Rust actor (rust_ping)
CppPongActor == ExampleActor("cpp")
RustPingActor == ExampleActor("rust")

\* the counts of the Pings that reach cpp_pong from outside the example
PingCounts == {FIRST_COUNT, ROUNDS}

\* a reply that does not test for a sender and makes the bridge call with
\* whatever name it finds
reply_unchecked(a, cm, mtype) ==
    LET rt == RuntimeOf(a)
        call == [made |-> TRUE,
                 fn |-> IF rt = "cpp" THEN "rust_actor_send"
                        ELSE "cpp_actor_send",
                 actor_name |-> cm.sender.name,
                 sender_name |-> NameOf(a), msg_type |-> mtype]
    IN  [call |-> call, status |-> BridgeStatus(registry, call),
         dest |-> <<Peer(rt), cm.sender.name>>,
         sender |-> ProxySender(NameOf(a))]

\* reply(m) inside the handler of message cm, by actor a.  No sender:
\* NoReplyContext.  A local sender: sender->send(m, this).  A proxy
\* (RustSenderProxy / SenderContext): the bridge call back into the origin
\* runtime, addressed to the name captured when cm crossed.
reply(a, cm, mtype) ==
    LET rt == RuntimeOf(a)
        call == IF cm.sender.via = "proxy"
                THEN [made |-> TRUE,
                      fn |-> IF rt = "cpp" THEN "rust_actor_send"
                             ELSE "cpp_actor_send",
                      actor_name |-> cm.sender.name,
                      sender_name |-> NameOf(a), msg_type |-> mtype]
                ELSE NoCall
    IN  [call |-> call,
         status |-> IF cm.sender.via = "none" THEN "NoReplyContext"
                    ELSE IF cm.sender.via = "local" THEN "Delivered"
                    ELSE BridgeStatus(registry, call),
         dest |-> IF cm.sender.via = "local" THEN <<rt, cm.sender.name>>
                  ELSE <<Peer(rt), cm.sender.name>>,
         sender |-> IF cm.sender.via = "local" THEN LocalSender(a)
                    ELSE ProxySender(NameOf(a))]

\* a pong actor that answers with the next count
PongFor_next(ping) == [mtype |-> MSG_PONG, count |-> ping.count + 1]

\* auto* pong = new msg::Pong(); pong->count = m->count;
PongFor(ping) == [mtype |-> MSG_PONG, count |-> ping.count]

\* CppPongActor::on_ping: reply(pong)
CppPongActor_on_ping ==
    /\ CanAct(CppPongActor)
    /\ current[CppPongActor].mtype = MSG_PING
    /\ LET cm == current[CppPongActor]
           pong == PongFor(cm)
           r == reply(CppPongActor, cm, pong.mtype)
           m == [id |-> next_id, kind |-> "send", mtype |-> pong.mtype,
                 from |-> CppPongActor, sender |-> r.sender,
                 count |-> pong.count]
           delivered == r.status = "Delivered"
       IN  /\ mailbox' = IF delivered
                         THEN Enqueued("send", CppPongActor, r.dest, m).mb
                         ELSE mailbox
           /\ next_id' = IF delivered THEN next_id + 1 ELSE next_id
           /\ last' = [op |-> "on_ping", by |-> CppPongActor, ping |-> cm,
                       call |-> r.call, status |-> r.status, dest |-> r.dest,
                       pong |-> m, before |-> mailbox]
    /\ Return(CppPongActor)
    /\ UNCHANGED <<registry, actor_ref, blocked_on, fast_log, alive, local>>
    /\ UNCHANGED <<bridge, lookup_ready, mgr, pc>>

\* MESSAGE_HANDLER(msg::Ping, on_ping) is the only handler: Start has none
CppPongActor_other ==
    /\ CanAct(CppPongActor)
    /\ current[CppPongActor].mtype # MSG_PING
    /\ Return(CppPongActor)
    /\ last' = [op |-> "unhandled", by |-> CppPongActor]
    /\ UNCHANGED <<registry, actor_ref, mailbox, blocked_on, fast_log, next_id,
                   alive, local>>
    /\ UNCHANGED <<bridge, lookup_ready, mgr, pc>>

\* RustPingActor::on_start: self.cpp_pong.send(&Ping { count: 1 })
RustPingActor_on_start ==
    /\ CanAct(RustPingActor)
    /\ current[RustPingActor].mtype = MSG_START
    /\ SendCounted(RustPingActor,
                   CppActorRef(NameOf(CppPongActor), NameOf(RustPingActor)),
                   MSG_PING, FIRST_COUNT)
    /\ Return(RustPingActor)
    /\ last' = [op |-> "on_start", by |-> RustPingActor]
    /\ UNCHANGED <<registry, actor_ref, blocked_on, fast_log, alive, local>>
    /\ UNCHANGED <<bridge, lookup_ready, mgr, pc>>

\* RustPingActor::on_pong: the next Ping while count < 3, else terminate
RustPingActor_on_pong ==
    /\ CanAct(RustPingActor)
    /\ current[RustPingActor].mtype = MSG_PONG
    /\ LET count == current[RustPingActor].count
       IN  IF count < ROUNDS
           THEN /\ SendCounted(RustPingActor,
                               CppActorRef(NameOf(CppPongActor),
                                           NameOf(RustPingActor)),
                               MSG_PING, count + 1)
                /\ UNCHANGED local
           ELSE /\ local' = [local EXCEPT !.terminate_calls = @ + 1]
                /\ UNCHANGED <<mailbox, next_id>>
    /\ Return(RustPingActor)
    /\ last' = [op |-> "on_pong", by |-> RustPingActor]
    /\ UNCHANGED <<registry, actor_ref, blocked_on, fast_log, alive>>
    /\ UNCHANGED <<bridge, lookup_ready, mgr, pc>>

\* cpp_actor_send("cpp_pong", sender, 1000, &ping) by a caller outside the
\* example, with or without a sender name
PingCall(sender, count) ==
    /\ alive
    /\ local.calls < MaxMsgs
    /\ LET call == [made |-> TRUE, fn |-> "cpp_actor_send",
                    actor_name |-> NameOf(CppPongActor),
                    sender_name |-> sender, msg_type |-> MSG_PING]
           d == deliver(bridge, registry, call)
           m == [id |-> next_id, kind |-> "send", mtype |-> MSG_PING,
                 from |-> MainThread, sender |-> ProxySender(sender),
                 count |-> count]
       IN  /\ d.status = "Delivered"
           /\ mailbox' = Enqueued("send", MainThread, CppPongActor, m).mb
           /\ next_id' = next_id + 1
           /\ local' = [local EXCEPT !.calls = @ + 1]
           /\ last' = [op |-> "ping_call", call |-> call]
    /\ UNCHANGED <<registry, actor_ref, current, blocked_on, processed,
                   fast_log, alive, bridge, lookup_ready, mgr, pc>>

\* reply(pong) called while the actor handles no message (from a constructor
\* or from another thread): there is no message to take a sender from
ReplyOutside(a) ==
    /\ alive
    /\ current[a] = NoMsg
    /\ last' = [op |-> "reply_outside", by |-> a, call |-> NoCall,
                status |-> "NoReplyContext",
                before |-> <<registry, mailbox, actor_ref>>]
    /\ UNCHANGED <<registry, actor_ref, mailbox, current, blocked_on,
                   processed, fast_log, next_id, alive>>
    /\ UNCHANGED env

\* main() after cpp_mgr.init(): Start queued for CppPongActor,
\* rust_manager_init() next
PongInitial ==
    /\ Idle
    /\ mailbox = [a \in Actors |-> IF a = CppPongActor THEN <<StartMsg>>
                                   ELSE <<>>]
    /\ registry = [rt \in RT |-> {NameOf(ExampleActor(rt))}]
    /\ bridge = [rt \in RT |-> "ready"]
    /\ lookup_ready = TRUE
    /\ mgr = [rt \in RT |-> IF rt = "cpp" THEN "started" ELSE "created"]
    /\ local = [terminate_calls |-> 0, calls |-> 0]

PongNext ==
    \/ rust_manager_init
    \/ \E a \in {CppPongActor, RustPingActor} : HandlerStart(a)
    \/ CppPongActor_on_ping
    \/ CppPongActor_other
    \/ RustPingActor_on_start
    \/ RustPingActor_on_pong
    \/ \E sender \in TestSenders \cup {NameOf(RustPingActor)},
          count \in PingCounts : PingCall(sender, count)
    \/ \E a \in {CppPongActor, RustPingActor} : ReplyOutside(a)

PongSpec == PongInitial /\ [][PongNext]_vars

\* C25: CppPongActor answers every Ping(n) it receives with exactly one reply,
\* a Pong carrying the same count n, addressed to the sender of that Ping, and
\* sends nothing else.
C25_PongEchoesCount ==
    (last.op = "on_ping" /\ last.by = CppPongActor)
    => /\ last.pong.mtype = MSG_PONG
       /\ last.pong.count = last.ping.count
       /\ last.ping.sender.via = "proxy"
          => /\ last.call = [made |-> TRUE, fn |-> "rust_actor_send",
                             actor_name |-> last.ping.sender.name,
                             sender_name |-> NameOf(CppPongActor),
                             msg_type |-> MSG_PONG]
             /\ last.dest = <<"rust", last.ping.sender.name>>
       /\ last.ping.sender.via = "none" => ~last.call.made
       /\ \A a \in Actors :
            mailbox[a] = IF a = last.dest /\ last.status = "Delivered"
                         THEN Append(last.before[a], last.pong)
                         ELSE last.before[a]

\* C25 witness: the third Ping of RustPingActor has been answered with Pong(3),
\* queued for rust_ping
C25_Witness ==
    /\ last.op = "on_ping"
    /\ last.by = CppPongActor
    /\ last.ping.from = RustPingActor
    /\ last.ping.count = ROUNDS
    /\ last.status = "Delivered"
    /\ last.dest = RustPingActor

\* C27: reply with no message being handled, or in the handler of a message
\* that carried no sender, fails with NoReplyContext: no bridge call is made,
\* no message is queued for any actor of either runtime, and no registry or
\* reference changes.
C27_NoReplyContext ==
    /\ last.op = "reply_outside"
          => /\ last.status = "NoReplyContext"
             /\ ~last.call.made
             /\ <<registry, mailbox, actor_ref>> = last.before
    /\ (last.op = "on_ping" /\ last.by = CppPongActor
           /\ last.ping.sender.via = "none")
          => /\ last.status = "NoReplyContext"
             /\ ~last.call.made
             /\ mailbox = last.before
             /\ registry = [rt \in RT |-> {NameOf(ExampleActor(rt))}]
             /\ actor_ref = [a \in Actors |-> NoRef]

\* C27 witness: CppPongActor has replied to a Ping that came without a sender
\* while Pongs of the exchange were queued
C27_Witness ==
    /\ last.op = "on_ping"
    /\ last.by = CppPongActor
    /\ last.ping.sender.via = "none"
    /\ last.status = "NoReplyContext"
    /\ \E a \in Actors : mailbox[a] # <<>>

----------------------------------------------------------------------------
(* The C++ publishers: CppPriceFeed (main.cpp) and PriceFeed
   (cpp_publisher.cpp) *)

\* for (int i = 0; i < 3; i++) cpp_mgr.publish()
PUBLISH_ROUNDS == 3

\* if (update_count_ >= 3) manager_->terminate()
ROUNDS_EXPECTED == 3

\* the publisher (cpp_price_feed) is the example's C++ actor
PriceFeed == ExampleActor("cpp")

\* the Rust actors that may subscribe: the example's subscriber
\* (rust_price_monitor) and a Rust actor of another name
Subscribers == {a \in Actors : RuntimeOf(a) = "rust"}

\* string sender_name = "rust_price_monitor";
HardcodedSender == NameOf(ExampleActor("rust"))

\* the sender names a Subscribe may arrive with; "" is no sender
SenderNames == {NameOf(a) : a \in Subscribers}

\* prices_["AAPL"], prices_["GOOG"], prices_["MSFT"]
PricedTopics == {"AAPL", "GOOG", "MSFT"}

\* the topics subscribers ask for: one with a price and one without
SubTopics == {"AAPL", "TSLA"}

\* the two publisher classes
PublisherClasses == {"CppPriceFeed", "PriceFeed"}

\* a key of subscribers_ without an entry
NoSub == [present |-> FALSE, ref |-> NoRef, topics |-> <<>>]

InSeq(x, seq) == \E i \in DOMAIN seq : seq[i] = x

\* topics.erase(remove(topics.begin(), topics.end(), topic), topics.end())
RECURSIVE Erase(_, _)
Erase(seq, x) ==
    IF seq = <<>> THEN <<>>
    ELSE IF Head(seq) = x THEN Erase(Tail(seq), x)
    ELSE <<Head(seq)>> \o Erase(Tail(seq), x)

\* a subscribe that appends the topic without looking for it first
AddTopic_unchecked(topics, topic) == Append(topics, topic)

\* if (find(topics.begin(), topics.end(), topic) == topics.end())
\*     topics.push_back(topic);
AddTopic(topics, topic) ==
    IF InSeq(topic, topics) THEN topics ELSE Append(topics, topic)

\* a publisher that takes every Subscribe as coming from rust_price_monitor
SubscribeSender_hardcoded(class, cm) ==
    [present |-> TRUE, name |-> HardcodedSender]

\* The sender name on_subscribe / on_unsubscribe work with.  CppPriceFeed:
\* string sender_name = "rust_price_monitor".  PriceFeed: get_reply_to(),
\* return if null, else sender->get_name().
SubscribeSender(class, cm) ==
    IF class = "CppPriceFeed" THEN [present |-> TRUE, name |-> HardcodedSender]
    ELSE IF cm.sender.via = "none" THEN [present |-> FALSE, name |-> ""]
    ELSE [present |-> TRUE, name |-> cm.sender.name]

\* a retained reference that looks the name up again in the C++ runtime
RetainedProxyRef_by_lookup(name) == get_ref(registry, name).ref

\* actors::ActorRef(sender) on the reply proxy: the proxy holds the origin
\* runtime and the sender name captured when the message crossed, and a send
\* through it goes back to that name in that runtime; retained, it stays
\* usable after the handler returns
RetainedProxyRef(name) == RustActorRef(name, NameOf(PriceFeed))

\* The reference stored for a new subscriber.  CppPriceFeed:
\* manager_->get_ref(sender_name).  PriceFeed: actors::ActorRef(sender), the
\* proxy that stands for the sender, sending back to the name it carries.
SubscriberRef(class, name) ==
    IF class = "CppPriceFeed" THEN get_ref(registry, name)
    ELSE [found |-> TRUE, ref |-> RetainedProxyRef(name), exists_calls |-> 0]

\* the <<actor, topic>> each send of the sequence todo reaches
Deliveries(todo) ==
    [i \in DOMAIN todo |->
        <<SendPlan(PriceFeed, todo[i][1], MSG_MARKETUPDATE, registry).dest,
          todo[i][2]>>]

\* the <<sender, topic>> pairs whose latest handled request is an Unsubscribe
Unsubscribed(off, cm, mtype) ==
    IF cm.sender.via = "none" THEN off
    ELSE IF mtype = MSG_UNSUBSCRIBE
    THEN off \cup {<<cm.sender.name, cm.topic>>}
    ELSE off \ {<<cm.sender.name, cm.topic>>}

\* the MarketUpdates send_update queues: one per <<subscriber ref, topic>> of
\* the sequence todo, in order, each through sub.ref.send(update, this)
RECURSIVE SendUpdates(_, _, _)
SendUpdates(mb, id, todo) ==
    IF todo = <<>> THEN [mb |-> mb, id |-> id]
    ELSE LET ref == Head(todo)[1]
             plan == SendPlan(PriceFeed, ref, MSG_MARKETUPDATE, registry)
             m == [id |-> id, kind |-> "send", mtype |-> MSG_MARKETUPDATE,
                   from |-> PriceFeed, sender |-> plan.sender,
                   symbol |-> Head(todo)[2]]
         IN  IF plan.status = "Delivered"
             THEN SendUpdates([mb EXCEPT ![plan.dest] = Append(@, m)], id + 1,
                              Tail(todo))
             ELSE SendUpdates(mb, id, Tail(todo))

\* on_subscribe of both classes: find or create the entry, add the topic if
\* it is not there, send the initial price if the topic has one
PriceFeed_on_subscribe ==
    /\ CanAct(PriceFeed)
    /\ current[PriceFeed].mtype = MSG_SUBSCRIBE
    /\ LET cm == current[PriceFeed]
           who == SubscribeSender(local.class, cm)
           old == IF who.present THEN local.subscribers[who.name] ELSE NoSub
           r == IF old.ref = NoRef THEN SubscriberRef(local.class, who.name)
                ELSE [found |-> TRUE, ref |-> old.ref, exists_calls |-> 0]
           topics == AddTopic(old.topics, cm.topic)
           off == Unsubscribed(local.off, cm, MSG_SUBSCRIBE)
           new == [present |-> TRUE, ref |-> r.ref, topics |-> topics]
           todo == IF cm.topic \in PricedTopics THEN <<<<r.ref, cm.topic>>>>
                   ELSE <<>>
           out == SendUpdates(mailbox, next_id, todo)
       IN  IF ~who.present
           THEN UNCHANGED <<mailbox, next_id, local, alive>>
           ELSE IF ~r.found
           THEN /\ alive' = FALSE
                /\ local' = [local EXCEPT
                                !.subscribers[who.name].present = TRUE,
                                !.off = off]
                /\ UNCHANGED <<mailbox, next_id>>
           ELSE /\ local' = [local EXCEPT !.subscribers[who.name] = new,
                                          !.off = off]
                /\ mailbox' = out.mb
                /\ next_id' = out.id
                /\ UNCHANGED alive
    /\ Return(PriceFeed)
    /\ last' = [op |-> "on_subscribe", msg |-> current[PriceFeed],
                before |-> local.subscribers, queues |-> mailbox]
    /\ UNCHANGED <<registry, actor_ref, blocked_on, fast_log, bridge,
                   lookup_ready, mgr, pc>>

\* on_unsubscribe: the topic leaves the sender's list; PriceFeed erases the
\* entry when the list is empty
PriceFeed_on_unsubscribe ==
    /\ CanAct(PriceFeed)
    /\ current[PriceFeed].mtype = MSG_UNSUBSCRIBE
    /\ LET cm == current[PriceFeed]
           who == SubscribeSender(local.class, cm)
           old == IF who.present THEN local.subscribers[who.name] ELSE NoSub
           topics == Erase(old.topics, cm.topic)
           off == Unsubscribed(local.off, cm, MSG_UNSUBSCRIBE)
       IN  IF ~who.present
           THEN UNCHANGED local
           ELSE IF ~old.present
           THEN local' = [local EXCEPT !.off = off]
           ELSE IF local.class = "PriceFeed" /\ topics = <<>>
           THEN local' = [local EXCEPT !.subscribers[who.name] = NoSub,
                                       !.off = off]
           ELSE local' = [local EXCEPT
                             !.subscribers[who.name].topics = topics,
                             !.off = off]
    /\ Return(PriceFeed)
    /\ last' = [op |-> "on_unsubscribe", msg |-> current[PriceFeed],
                before |-> local.subscribers, queues |-> mailbox]
    /\ UNCHANGED <<registry, actor_ref, mailbox, blocked_on, fast_log,
                   next_id, alive, bridge, lookup_ready, mgr, pc>>

\* neither class has a handler for Start
PriceFeed_other ==
    /\ CanAct(PriceFeed)
    /\ current[PriceFeed].mtype \notin {MSG_SUBSCRIBE, MSG_UNSUBSCRIBE}
    /\ Return(PriceFeed)
    /\ last' = [op |-> "unhandled", by |-> PriceFeed]
    /\ UNCHANGED <<registry, actor_ref, mailbox, blocked_on, fast_log, next_id,
                   alive, local>>
    /\ UNCHANGED <<bridge, lookup_ready, mgr, pc>>

\* the <<ref, topic>> pairs of one publish round, subscriber by subscriber
RECURSIVE RoundOf(_, _)
RoundOf(subs, names) ==
    IF names = {} THEN <<>>
    ELSE LET n == CHOOSE x \in names : TRUE
             e == subs[n]
         IN  [i \in 1..Len(e.topics) |-> <<e.ref, e.topics[i]>>]
             \o RoundOf(subs, names \ {n})

\* the pairs of a round whose topic has a price
RECURSIVE Priced(_)
Priced(todo) ==
    IF todo = <<>> THEN <<>>
    ELSE IF Head(todo)[2] \in PricedTopics
    THEN <<Head(todo)>> \o Priced(Tail(todo))
    ELSE Priced(Tail(todo))

\* a publisher that signals completion one round early
PublishDone_early(count) == count >= ROUNDS_EXPECTED - 1

\* publish_updates: if (update_count_ >= 3)
PublishDone(count) == count >= ROUNDS_EXPECTED

\* main(): cpp_mgr.publish() enters CppPriceFeed::publish_updates()
\* (PriceFeed: publish_all()) on the main thread.  Nothing orders the call
\* with the handlers the actor's own thread runs: main only sleeps 100 ms
\* before the first round and between rounds, and takes no lock.
publish_begin ==
    /\ alive
    /\ mgr["cpp"] = "started"
    /\ ~local.publishing
    /\ local.rounds < PUBLISH_ROUNDS
    /\ local' = [local EXCEPT !.publishing = TRUE]
    /\ last' = [op |-> "publish_begin", handling |-> current[PriceFeed]]
    /\ UNCHANGED <<registry, actor_ref, mailbox, current, blocked_on,
                   processed, fast_log, next_id, alive, bridge, lookup_ready,
                   mgr, pc>>

\* publish_updates on the main thread and on_subscribe / on_unsubscribe on
\* the actor's thread are both inside their bodies, which read and write
\* subscribers_ and prices_
Racing ==
    /\ local.publishing
    /\ current[PriceFeed] # NoMsg
    /\ current[PriceFeed].mtype \in {MSG_SUBSCRIBE, MSG_UNSUBSCRIBE}

\* two threads in the unordered_maps at once is a data race: apart from the
\* outcomes in which the two bodies take effect one after the other, the
\* process may fault
race_fault ==
    /\ alive
    /\ Racing
    /\ alive' = FALSE
    /\ last' = [op |-> "race_fault", handling |-> current[PriceFeed]]
    /\ UNCHANGED <<registry, actor_ref, mailbox, current, blocked_on,
                   processed, fast_log, next_id, bridge, lookup_ready, mgr,
                   pc, local>>

\* the rest of publish_updates, up to its return (PriceFeed::publish_all
\* neither counts nor terminates)
publish ==
    /\ alive
    /\ mgr["cpp"] = "started"
    /\ local.publishing
    /\ LET todo == Priced(RoundOf(local.subscribers,
                          {n \in SenderNames : local.subscribers[n].present}))
           out == SendUpdates(mailbox, next_id, todo)
           count == local.update_count + 1
       IN  /\ mailbox' = out.mb
           /\ next_id' = out.id
           /\ local' = IF local.class = "CppPriceFeed"
                       THEN [local EXCEPT
                               !.publishing = FALSE,
                               !.rounds = @ + 1,
                               !.update_count = count,
                               !.terminate_calls =
                                   IF PublishDone(count) THEN @ + 1 ELSE @]
                       ELSE [local EXCEPT !.publishing = FALSE,
                                          !.rounds = @ + 1]
           /\ last' = [op |-> "publish", round |-> local.rounds + 1,
                       sent |-> out.id - next_id,
                       sent_to |-> Deliveries(todo), queues |-> mailbox]
    /\ UNCHANGED <<registry, actor_ref, current, blocked_on, processed,
                   fast_log, alive, bridge, lookup_ready, mgr, pc>>

\* a Rust actor sends Subscribe / Unsubscribe to the publisher:
\* cpp_actor_send("cpp_price_feed", sender, 1010 / 1011, &msg)
SubscribeCall(sender, mtype, topic) ==
    /\ alive
    /\ local.calls < MaxMsgs
    /\ LET call == [made |-> TRUE, fn |-> "cpp_actor_send",
                    actor_name |-> NameOf(PriceFeed),
                    sender_name |-> sender, msg_type |-> mtype]
           d == deliver(bridge, registry, call)
           m == [id |-> next_id, kind |-> "send", mtype |-> mtype,
                 from |-> MainThread, sender |-> ProxySender(sender),
                 topic |-> topic]
       IN  /\ d.status = "Delivered"
           /\ mailbox' = Enqueued("send", MainThread, PriceFeed, m).mb
           /\ next_id' = next_id + 1
           /\ local' = [local EXCEPT !.calls = @ + 1]
           /\ last' = [op |-> "subscribe_call", call |-> call]
    /\ UNCHANGED <<registry, actor_ref, current, blocked_on, processed,
                   fast_log, alive, bridge, lookup_ready, mgr, pc>>

\* main() after rust_manager_init(), for either publisher class
PublisherInitial ==
    /\ Idle
    /\ mailbox = [a \in Actors |-> IF a = PriceFeed THEN <<StartMsg>>
                                   ELSE <<>>]
    /\ registry = [rt \in RT |-> {NameOf(a) : a \in {b \in Actors :
                                                        RuntimeOf(b) = rt}}]
    /\ bridge = [rt \in RT |-> "ready"]
    /\ lookup_ready = TRUE
    /\ mgr = [rt \in RT |-> "started"]
    /\ \E class \in PublisherClasses :
          local = [class |-> class,
                   subscribers |-> [n \in SenderNames |-> NoSub],
                   update_count |-> 0, terminate_calls |-> 0, rounds |-> 0,
                   calls |-> 0, publishing |-> FALSE, off |-> {}]

PublisherNext ==
    \/ HandlerStart(PriceFeed)
    \/ PriceFeed_on_subscribe
    \/ PriceFeed_on_unsubscribe
    \/ PriceFeed_other
    \/ publish_begin
    \/ race_fault
    \/ publish
    \/ \E sender \in SenderNames \cup {""},
          mtype \in {MSG_SUBSCRIBE, MSG_UNSUBSCRIBE}, topic \in SubTopics :
          SubscribeCall(sender, mtype, topic)

PublisherSpec == PublisherInitial /\ [][PublisherNext]_vars

\* a Subscribe that came with a sender has just been handled
SubscribeHandled ==
    /\ last.op = "on_subscribe"
    /\ last.msg.sender.via = "proxy"

\* C26: for every sender name S, after S's Subscribe(T) is handled the
\* publisher's subscriber table has an entry keyed by S whose reference
\* routes updates to S.
C26_SubscriberKeyedBySender ==
    SubscribeHandled
    => LET S == last.msg.sender.name
       IN  /\ local.subscribers[S].present
           /\ InSeq(last.msg.topic, local.subscribers[S].topics)
           /\ SendPlan(PriceFeed, local.subscribers[S].ref, MSG_MARKETUPDATE,
                       registry).dest = <<"rust", S>>

\* C28: the publisher publishes three rounds and then signals completion:
\* publish_updates calls terminate for the first time at the end of the third
\* round, not before, and exactly once.
C28_TerminateAfterThirdRound ==
    local.class = "CppPriceFeed"
    => /\ local.update_count = local.rounds
       /\ local.rounds <= PUBLISH_ROUNDS
       /\ local.terminate_calls = IF local.rounds >= PUBLISH_ROUNDS THEN 1
                                  ELSE 0

\* C28 witness: the third round went to a subscriber and terminate was called
C28_Witness ==
    /\ local.class = "CppPriceFeed"
    /\ last.op = "publish"
    /\ last.round = PUBLISH_ROUNDS
    /\ last.sent > 0
    /\ local.terminate_calls = 1

----------------------------------------------------------------------------
(* RustActorRef::send and the message it is given *)

\* the ids of the messages handed to send: the declared ones, one that is in
\* no schema, and a control message
SentIds == DeclaredIds \cup {MSG_MYMESSAGE, MSG_START}

\* a send that deletes the message inside the known cases only
Deletes_known_only(mtype) == IF mtype \in SwitchIds THEN 1 ELSE 0

\* how often RustActorRef::send deletes the message it was given: the
\* delete m after the switch is on every path, and no case deletes
Deletes(mtype) == 1

\* a send that checks the status rust_actor_send returned and throws on
\* anything but Delivered
AfterBridgeCall_checked(status) ==
    IF status \in {"Delivered", "Dropped"} THEN "return" ELSE "throw"

\* rust_actor_send(...); break;  the int32_t the bridge returns is discarded
\* in every case of the switch, so control reaches delete m and returns
AfterBridgeCall(status) == "return"

\* the actor send is given as its sender argument: this, or nullptr
NullActor == <<"cpp", "">>
SenderArguments == {PingActor, NullActor}

\* pong_ref_.send(new msg::Ping{n}, this) on a RustActorRef(target, sender):
\* the message is allocated in the argument, so the caller keeps no pointer;
\* send dispatches on the id, makes the bridge call and deletes the message.
\* An exception leaving send would skip the delete and, the handlers being
\* noexcept, end the process.
RefSend(target, sender_name, mtype, sender) ==
    /\ alive
    /\ Len(local.objects) < MaxMsgs
    /\ LET ref == RustActorRef(target, sender_name)
           call == RustActorRef_send(ref, mtype, sender)
           d == IF call.made THEN deliver(bridge, registry, call)
                ELSE [status |-> "Dropped", fault |-> FALSE]
           m == [id |-> next_id, kind |-> "send", mtype |-> mtype,
                 from |-> PingActor, sender |-> ProxySender(call.sender_name)]
           outcome == AfterBridgeCall(d.status)
           obj == [id |-> next_id, mtype |-> mtype,
                   frees |-> IF outcome = "return" THEN Deletes(mtype) ELSE 0,
                   caller_pointers |-> 0,
                   crossed |-> IF call.made THEN <<m.sender>> ELSE <<>>,
                   status |-> d.status, outcome |-> outcome]
       IN  /\ mailbox' = IF d.status = "Delivered"
                         THEN [mailbox EXCEPT ![<<"rust", target>>]
                                                  = Append(@, m)]
                         ELSE mailbox
           /\ next_id' = next_id + 1
           /\ alive' = (outcome = "return")
           /\ local' = [local EXCEPT !.objects = Append(@, obj)]
           /\ last' = [op |-> "ref_send", ref |-> ref, mtype |-> mtype,
                       calls |-> IF call.made THEN <<call>> ELSE <<>>,
                       status |-> d.status, obj |-> obj, sender |-> sender,
                       before |-> <<actor_ref, current, blocked_on,
                                    processed>>]
    /\ UNCHANGED <<registry, actor_ref, current, blocked_on, processed,
                   fast_log, bridge, lookup_ready, mgr, pc>>

\* a C++ actor holding a RustActorRef as a member (pong_ref_), built with or
\* without a sender name, with the Rust actors registered or not
SendInitial ==
    /\ Idle
    /\ mailbox = [a \in Actors |-> <<>>]
    /\ registry \in {r \in [RT -> SUBSET Names] :
                        \A rt \in RT : r[rt] \subseteq OwnNames(rt)}
    /\ bridge = [rt \in RT |-> "ready"]
    /\ lookup_ready = TRUE
    /\ mgr = [rt \in RT |-> "created"]
    /\ local \in {[objects |-> <<>>, ref |-> RustActorRef(t, n)] :
                     t \in Names, n \in TestSenders}

\* the sends of the C++ actor, and a Rust actor leaving its runtime's table
\* (unregister_actor) between two of them
SendNext ==
    \/ \E mtype \in SentIds, sender \in SenderArguments :
          RefSend(local.ref.target, local.ref.sender, mtype, sender)
    \/ \E n \in Names : Unregister("rust", n)

SendSpec == SendInitial /\ [][SendNext]_vars

\* C29: RustActorRef::send consumes the message it is given exactly once on
\* every path, the known ids and the default alike: no message is freed twice
\* or leaked, and the caller holds no pointer to it after send.
C29_MessageConsumedOnce ==
    /\ \A i \in DOMAIN local.objects :
          /\ local.objects[i].frees = 1
          /\ local.objects[i].caller_pointers = 0
    /\ last.op = "ref_send"
          => /\ last.obj = local.objects[Len(local.objects)]
             /\ last.obj.mtype = last.mtype

\* C29 witness: a message of an id the switch does not know went through the
\* default case after a known one was sent
C29_Witness ==
    /\ last.op = "ref_send"
    /\ last.mtype \notin SwitchIds
    /\ last.calls = <<>>
    /\ Len(local.objects) > 1
    /\ local.objects[1].mtype \in SwitchIds

\* C30: for each of the eight declared ids RustActorRef::send makes exactly
\* one rust_actor_send call, with msg_type the message's id and actor_name the
\* reference's target name; for every other id it makes no bridge call; the
\* ids it dispatches are exactly the declared ones.
C30_DispatchMatchesSchema ==
    /\ SwitchIds = DeclaredIds
    /\ last.op = "ref_send"
          => /\ last.mtype \in DeclaredIds
                => /\ Len(last.calls) = 1
                   /\ last.calls[1].fn = "rust_actor_send"
                   /\ last.calls[1].msg_type = last.mtype
                   /\ last.calls[1].actor_name = last.ref.target
             /\ last.mtype \notin DeclaredIds => last.calls = <<>>

\* C30 witness: a MarketDepth (1013) was sent and the bridge delivered it
C30_Witness ==
    /\ last.op = "ref_send"
    /\ last.mtype = MSG_MARKETDEPTH
    /\ Len(last.calls) = 1
    /\ last.status = "Delivered"

\* C31: the sender identity RustActorRef::send passes to the bridge depends
\* only on the sender name fixed when the reference was constructed: it is
\* absent exactly when that name is empty and is that name otherwise,
\* whichever actor is passed as the sender argument, and it is the same for
\* every send made through that reference.
C31_SenderFixedAtConstruction ==
    /\ last.op = "ref_send" /\ last.calls # <<>>
          => /\ last.calls[1].sender_name = last.ref.sender
             /\ last.obj.crossed[1] = NoSender <=> last.ref.sender = ""
             /\ last.obj.crossed[1] # NoSender
                   => last.obj.crossed[1].name = last.ref.sender
    /\ last.op = "ref_send" => last.ref = local.ref
    /\ \A i, j \in DOMAIN local.objects :
          /\ local.objects[i].crossed # <<>>
          /\ local.objects[j].crossed # <<>>
          => local.objects[i].crossed = local.objects[j].crossed

\* C31 witness: a reference built with an empty sender name, as get_ref
\* builds it, was sent through twice, once with this and once with nullptr
\* as the sender argument, and no sender crossed
C31_Witness ==
    /\ last.op = "ref_send"
    /\ last.ref.sender = ""
    /\ last.sender = PingActor
    /\ last.calls # <<>>
    /\ last.obj.crossed = <<NoSender>>
    /\ Len(local.objects) > 1
    /\ local.objects[1].crossed # <<>>

\* C32: the status rust_actor_send returns never influences
\* RustActorRef::send: Delivered or NotFound, the send returns normally, the
\* message is consumed once and the sending actor's state is unchanged.
C32_StatusIgnored ==
    /\ alive
    /\ \A i \in DOMAIN local.objects :
          /\ local.objects[i].outcome = "return"
          /\ local.objects[i].frees = 1
    /\ last.op = "ref_send"
          => last.before = <<actor_ref, current, blocked_on, processed>>

\* C32 witness: the target was unregistered after a first send through the
\* reference was delivered, and the second send got NotFound
C32_Witness ==
    /\ last.op = "ref_send"
    /\ last.status = "NotFound"
    /\ Len(local.objects) > 1
    /\ local.objects[1].status = "Delivered"

\* C33: Subscribe is idempotent on the topic list: in PriceFeed and in
\* CppPriceFeed no subscriber's topic list ever holds the same topic twice.
C33_TopicsDistinct ==
    \A n \in SenderNames :
        \A i, j \in DOMAIN local.subscribers[n].topics :
            local.subscribers[n].topics[i] = local.subscribers[n].topics[j]
            => i = j

\* C33 witness: a second Subscribe for a topic the subscriber already has was
\* handled and the list is as it was
C33_Witness ==
    /\ SubscribeHandled
    /\ local.subscribers[last.msg.sender.name].present
    /\ InSeq(last.msg.topic, last.before[last.msg.sender.name].topics)
    /\ local.subscribers[last.msg.sender.name].topics
          = last.before[last.msg.sender.name].topics

\* C34: once the Unsubscribe(T) of a subscriber S is handled, no publish round
\* sends S a MarketUpdate for T until S subscribes to T again; and in
\* PriceFeed an entry is removed exactly when its last topic is unsubscribed,
\* so every entry has at least one topic.
C34_NoUpdateAfterUnsubscribe ==
    /\ last.op = "publish"
          => \A i \in DOMAIN last.sent_to :
                \A S \in SenderNames :
                    last.sent_to[i][1] = <<"rust", S>>
                    => <<S, last.sent_to[i][2]>> \notin local.off
    /\ local.class = "PriceFeed"
          => /\ \A n \in SenderNames :
                   local.subscribers[n].present
                   => local.subscribers[n].topics # <<>>
             /\ last.op = "on_unsubscribe" /\ last.msg.sender.via = "proxy"
                   => LET S == last.msg.sender.name
                      IN  ~local.subscribers[S].present
                          <=> \/ ~last.before[S].present
                              \/ Erase(last.before[S].topics, last.msg.topic)
                                    = <<>>

\* C35: every Subscribe(T) that comes with a sender makes the publisher
\* record T for that subscriber and send that subscriber exactly one initial
\* MarketUpdate for T when T has a price and none otherwise; every publish
\* round sends exactly one MarketUpdate per pair of a subscriber and one of
\* its topics that has a price.
C35_InitialAndRoundUpdates ==
    /\ SubscribeHandled
          => LET S == last.msg.sender.name
                 T == last.msg.topic
                 new == [a \in Actors |->
                            SubSeq(mailbox[a], Len(last.queues[a]) + 1,
                                   Len(mailbox[a]))]
             IN  /\ InSeq(T, local.subscribers[S].topics)
                 /\ \A a \in Actors \ {<<"rust", S>>} : new[a] = <<>>
                 /\ Len(new[<<"rust", S>>])
                       = IF T \in PricedTopics THEN 1 ELSE 0
                 /\ \A i \in DOMAIN new[<<"rust", S>>] :
                       /\ new[<<"rust", S>>][i].mtype = MSG_MARKETUPDATE
                       /\ new[<<"rust", S>>][i].symbol = T
    /\ last.op = "publish"
          => /\ \A S \in SenderNames :
                   \A k \in DOMAIN local.subscribers[S].topics :
                       local.subscribers[S].topics[k] \in PricedTopics
                       => Cardinality(
                             {i \in DOMAIN last.sent_to :
                                 last.sent_to[i]
                                    = <<<<"rust", S>>,
                                        local.subscribers[S].topics[k]>>}) = 1
             /\ \A i \in DOMAIN last.sent_to :
                   \E S \in SenderNames :
                       /\ last.sent_to[i][1] = <<"rust", S>>
                       /\ InSeq(last.sent_to[i][2],
                                local.subscribers[S].topics)
                       /\ last.sent_to[i][2] \in PricedTopics

\* C36: PriceFeed::on_subscribe and on_unsubscribe, given a message that has
\* no sender, leave the subscriber table and every topic list as they were
\* and send no MarketUpdate.
C36_NoSenderIgnored ==
    /\ local.class = "PriceFeed"
    /\ last.op \in {"on_subscribe", "on_unsubscribe"}
    /\ last.msg.sender.via = "none"
    => /\ local.subscribers = last.before
       /\ mailbox = last.queues

\* C36 witness: PriceFeed handled a Subscribe without sender while it had a
\* subscriber
C36_Witness ==
    /\ local.class = "PriceFeed"
    /\ last.op = "on_subscribe"
    /\ last.msg.sender.via = "none"
    /\ \E n \in SenderNames : local.subscribers[n].present

\* C37: the reference PriceFeed builds from the reply proxy and keeps in its
\* table stays usable after the handler has returned: every later send
\* through it is delivered to the actor of the origin runtime whose name the
\* proxy captured when the Subscribe crossed.
C37_RetainedProxyRoutes ==
    local.class = "PriceFeed"
    => /\ \A S \in SenderNames :
             local.subscribers[S].present
             => LET plan == SendPlan(PriceFeed, local.subscribers[S].ref,
                                     MSG_MARKETUPDATE, registry)
                IN  /\ plan.status = "Delivered"
                    /\ plan.dest = <<"rust", S>>
       /\ last.op = "publish"
             => /\ \A i \in DOMAIN last.sent_to :
                      \E S \in SenderNames :
                          /\ last.sent_to[i][1] = <<"rust", S>>
                          /\ InSeq(last.sent_to[i][2],
                                   local.subscribers[S].topics)
                /\ \A a \in Actors :
                      Len(mailbox[a]) - Len(last.queues[a])
                         = Cardinality({i \in DOMAIN last.sent_to :
                                           last.sent_to[i][1] = a})

\* C37 witness: in the second round, long after on_subscribe returned,
\* PriceFeed published to the Rust actor whose name a C++ actor also has
C37_Witness ==
    /\ local.class = "PriceFeed"
    /\ last.op = "publish"
    /\ last.round > 1
    /\ \E i \in DOMAIN last.sent_to :
          last.sent_to[i][1] = <<"rust", NameOf(PriceFeed)>>

\* C38: CppPriceFeed's subscriber table and price table are never accessed by
\* two threads at once: publish_updates, on the main thread, is never inside
\* its body while on_subscribe or on_unsubscribe is inside its own on the
\* actor's thread.
C38_NoConcurrentAccess ==
    local.class = "CppPriceFeed" => ~Racing

\* C39: PingActor never sends through its peer reference before on_start has
\* resolved it: whenever on_pong sends a Ping, on_start has already run,
\* assigned pong_ref_ the reference get_ref returned and sent Ping(1).
C39_RefResolvedBeforeUse ==
    /\ last.op = "on_pong" /\ last.sent
          => /\ last.ref = get_ref(registry, NameOf(RustPongActor)).ref
             /\ last.ref # NoRef
             /\ local.pings[1] = FIRST_COUNT
    /\ (\/ current[PingActor] # NoMsg /\ current[PingActor].mtype = MSG_PONG
        \/ \E i \in DOMAIN mailbox[PingActor] :
              mailbox[PingActor][i].mtype = MSG_PONG)
       => actor_ref[PingActor] # NoRef

\* C39 witness: on_pong sent Ping(2) through the resolved reference
C39_Witness ==
    /\ last.op = "on_pong"
    /\ last.sent
    /\ last.ref.variant = "Rust"
    /\ local.pings = Counting(2)

\* C40: a message sent to a registered Rust actor after rust_actor_init and
\* before rust_manager_init has started the Rust actors is not lost:
\* PingActor's first Ping, sent while the Rust Manager is not started, is
\* eventually handled by the Rust pong actor and its Pong reaches PingActor.
C40_EarlyPingAnswered ==
    (/\ mgr["rust"] = "created"
     /\ local.pings = <<FIRST_COUNT>>
     /\ mailbox[RustPongActor] # <<>>
     /\ Head(mailbox[RustPongActor]).mtype = MSG_PING)
    ~> (/\ local.pongs # <<>>
        /\ local.pongs[1] = FIRST_COUNT)

\* C40 witness: Pong(1) has been handled while the Start of
\* rust_manager_init, queued behind the early Ping, is still the next message
\* of the Rust pong actor
C40_Witness ==
    /\ local.pongs = <<FIRST_COUNT>>
    /\ last.op = "on_pong"
    /\ mailbox[RustPongActor] # <<>>
    /\ Head(mailbox[RustPongActor]) = StartMsg

====
